---- MODULE Spec2Model ----
(***************************************************************************)
(* Component-aware transactional document model of convex-backend:        *)
(*   - BootstrapComponentsModel (crates/database/.../components/mod.rs)    *)
(*   - UserFacingModel          (crates/database/.../user_facing.rs)       *)
(*   - ValidatedPathAndArgs     (crates/isolate/.../helpers/validation.rs) *)
(* The specifications of this module: SpecComp drives the component tree   *)
(* resolver, SpecCompLoss the resolver over a table that loses records,    *)
(* SpecBatch get_batch, SpecDoc the document operations of one             *)
(* transaction, SpecRange index_range, SpecTx transactions that are        *)
(* abandoned, SpecValid function validation behind the backend state,      *)
(* SpecProto the protobuf form of validated paths and arguments, SpecDef   *)
(* the component definitions table, SpecModule the definition ids of       *)
(* components and function paths, SpecGet reads of single documents.       *)
(***************************************************************************)
EXTENDS Integers, Sequences, FiniteSets, TLC

VARIABLES
    components,     \* the _components table: internal id -> ComponentMetadata
    definitions,    \* the _component_definitions table: internal id -> metadata
    comp_result,    \* the last BootstrapComponentsModel call and what it returned
    identity,       \* tx.identity: "admin", "system" or "user"
    falling_behind, \* what tx.retention_validator.fail_if_falling_behind() sees
    table_mapping,  \* tx.table_mapping(): the names of the physical tables
    docs,           \* the documents of the transaction: resolved id -> document
    next_id,        \* tx.id_generator
    next_creation_time, \* tx.next_creation_time
    reads,          \* tx.reads: the size total of the user reads recorded so far
    backend_state,  \* the backend state the transaction reads and writes
    uf_result,      \* the last UserFacingModel call and what it returned
    database        \* the committed state that a new transaction starts from

comp_vars == <<components, definitions, comp_result>>
tx_vars == <<identity, falling_behind, table_mapping, docs, next_id,
             next_creation_time, reads, backend_state>>
doc_vars == <<tx_vars, uf_result>>

vars == <<comp_vars, doc_vars, database>>

(***************************************************************************)
(* Bounds of the model.                                                    *)
(***************************************************************************)
MaxComponents == 3
MaxPathLen == 2
MaxDefinitions == 2
MaxInserts == 2
MaxBatch == 2

\* The user document size ceiling of check_user_size and the read limit of
\* the transaction, scaled down.
UserSizeCeiling == 2
ReadSizeLimit == 2

\* The first value of the id generator and of the creation-time counter.
FirstGeneratedId == 2

\* The index value of a component without a parent (maybe_val!(null)).
NoParent == 0

ComponentNames == {"a", "b"}
InternalIds == 1..MaxComponents
DefinitionIds == 1..MaxDefinitions

None == [some |-> FALSE]
Some(x) == [some |-> TRUE, val |-> x]

\* ComponentId::Root / ComponentId::Child(internal_id)
RootId == [kind |-> "Root"]
ChildId(i) == [kind |-> "Child", id |-> i]

\* ComponentMetadata { definition_id, component_type }
AppMetadata(d) ==
    [definition_id |-> d, kind |-> "App", parent |-> NoParent, name |-> ""]
ChildMetadata(d, p, n) ==
    [definition_id |-> d, kind |-> "ChildComponent", parent |-> p, name |-> n]

\* ComponentPath: sequences of names, root to leaf.
RECURSIVE PathsOfLen(_)
PathsOfLen(n) ==
    IF n = 0 THEN {<<>>}
    ELSE {Append(p, x) : p \in PathsOfLen(n - 1), x \in ComponentNames}
ComponentPaths == UNION {PathsOfLen(n) : n \in 0..MaxPathLen}

Reverse(s) == [i \in 1..Len(s) |-> s[Len(s) + 1 - i]]

Min(S) == CHOOSE x \in S : \A y \in S : x <= y

\* A map with the entry k -> v added (BTreeMap::insert, a table write).
Put(m, k, v) == [x \in DOMAIN m \cup {k} |-> IF x = k THEN v ELSE m[x]]

(***************************************************************************)
(* Tables, identifiers and documents of the user-facing model.             *)
(***************************************************************************)

\* Table names are sequences of characters; the metadata prefix is '_'.
FilesTable == <<"f">>
MsgsTable == <<"m">>
SysTable == <<"_", "s">>
NewSysTable == <<"_", "n">>
StorageTable == <<"_", "v">>
TableNames == {FilesTable, MsgsTable, SysTable, NewSysTable, StorageTable}

\* TableName::is_system: the name starts with the metadata prefix.
is_system_name(table) == Head(table) = "_"

\* virtual_system_mapping().is_virtual_table
is_virtual_table(table) == table = StorageTable

\* The table number of a name, and the tablet behind a physical table.
TableNumber(table) ==
    CASE table = FilesTable -> 1
      [] table = MsgsTable -> 2
      [] table = SysTable -> 3
      [] table = NewSysTable -> 4
      [] table = StorageTable -> 5
TableNumbers == {TableNumber(t) : t \in TableNames}
NameOfNumber(n) == CHOOSE t \in TableNames : TableNumber(t) = n
TabletOf(table) == <<"tablet", table>>

\* virtual_table_mapping().number_exists
virtual_number_exists(n) ==
    \E t \in TableNames : is_virtual_table(t) /\ TableNumber(t) = n

\* table_mapping().table_number_exists()
table_number_exists(tm, n) == \E t \in tm : TableNumber(t) = n

\* DeveloperDocumentId and ResolvedDocumentId
DeveloperId(n, i) == [table |-> n, internal_id |-> i]
ResolvedId(tablet, i) == [tablet |-> tablet, internal_id |-> i]

\* id.map_table(table_mapping().inject_table_id())
inject_table_id(tm, id) ==
    IF table_number_exists(tm, id.table)
    THEN [ok |-> TRUE,
          id |-> ResolvedId(TabletOf(NameOfNumber(id.table)), id.internal_id)]
    ELSE [ok |-> FALSE, err |-> "TableNotFound"]

\* ResolvedDocumentId -> DeveloperDocumentId
developer_id(rid) == DeveloperId(TableNumber(rid.tablet[2]), rid.internal_id)

\* ResolvedDocument::to_developer: the same document under its developer id.
to_developer(rdoc) ==
    [id |-> developer_id(rdoc.id), size |-> rdoc.size,
     creation_time |-> rdoc.creation_time]

\* tx.is_system(table_number)
is_system(tm, n) ==
    /\ table_number_exists(tm, n) \/ virtual_number_exists(n)
    /\ is_system_name(NameOfNumber(n))

\* The state of a new transaction over the initial database: the user table
\* "f" and the system table "_s" exist, "_s" holds one document.
InitialTables == {FilesTable, SysTable}
InitialDocs ==
    [rid \in {ResolvedId(TabletOf(SysTable), 1)} |->
        [size |-> 1, creation_time |-> 1, ts |-> "Committed"]]

\* The committed state of the database: tables, documents and the backend
\* state, and the deployment's UDF config and analyzed functions (filled in
\* by a push; none in a database that was never pushed to).
Database(tm, dcs, bs) ==
    [tables |-> tm, docs |-> dcs, backend_state |-> bs,
     udf_config |-> None, functions |-> <<>>]

Identities == {"admin", "system", "user"}

(***************************************************************************)
(* BootstrapComponentsModel                                                *)
(***************************************************************************)

\* The entries of the by_parent_and_name index that an equality range on
\* (parent, name) -- or on parent = null alone -- selects.
IndexMatches(tbl, parent, name, byName) ==
    {i \in DOMAIN tbl :
        /\ tbl[i].parent = parent
        /\ (byName => tbl[i].name = name)}

\* Query::index_range over COMPONENTS_BY_PARENT_INDEX, Order::Asc, next():
\* the first matching document in index order, or none.
component_in_parent(tbl, parent_and_name) ==
    LET m == IF parent_and_name.some
             THEN IndexMatches(tbl, parent_and_name.val[1],
                               parent_and_name.val[2], TRUE)
             ELSE IndexMatches(tbl, NoParent, "", FALSE)
    IN IF m = {} THEN None ELSE Some(Min(m))

\* A sentinel query that scans the index from the wrong end.
root_component_LastEntry(tbl) ==
    IF DOMAIN tbl = {} THEN None
    ELSE Some(CHOOSE x \in DOMAIN tbl : \A y \in DOMAIN tbl : y <= x)

root_component(tbl) == component_in_parent(tbl, None)

\* The value resolve_path returns, with the arguments of the
\* component_in_parent calls it has made, in order.
Resolved(result, lookups) == [result |-> result, lookups |-> lookups]

\* A loop that goes on looking up the remaining segments, under the last
\* component found, after a segment has failed to resolve.
RECURSIVE resolve_from_NoShortCircuit(_, _, _, _)
resolve_from_NoShortCircuit(tbl, doc, path, lookups) ==
    IF path = <<>> THEN Resolved(Some(doc), lookups)
    ELSE LET parent_and_name == Some(<<doc, Head(path)>>)
             next == component_in_parent(tbl, parent_and_name)
             made == Append(lookups, parent_and_name)
         IN IF next.some
            THEN resolve_from_NoShortCircuit(tbl, next.val, Tail(path), made)
            ELSE Resolved(None,
                          resolve_from_NoShortCircuit(tbl, doc, Tail(path),
                                                      made).lookups)

\* The for loop of resolve_path: one component_in_parent per segment,
\* returning none at the first segment that does not resolve.
RECURSIVE resolve_from(_, _, _, _)
resolve_from(tbl, doc, path, lookups) ==
    IF path = <<>> THEN Resolved(Some(doc), lookups)
    ELSE LET parent_and_name == Some(<<doc, Head(path)>>)
             next == component_in_parent(tbl, parent_and_name)
             made == Append(lookups, parent_and_name)
         IN IF next.some THEN resolve_from(tbl, next.val, Tail(path), made)
            ELSE Resolved(None, made)

\* resolve_path(path), with the lookups made: that of the root first.
resolve_path_lookups(tbl, path) ==
    LET root == root_component(tbl)
    IN IF root.some THEN resolve_from(tbl, root.val, path, <<None>>)
       ELSE Resolved(None, <<None>>)

resolve_path(tbl, path) == resolve_path_lookups(tbl, path).result

\* A loop that stops at a missing record and returns the names found so far.
RECURSIVE walk_up_TruncatesAtMissing(_, _, _)
walk_up_TruncatesAtMissing(tbl, component_id, path) ==
    IF component_id.kind = "Root" THEN [ok |-> TRUE, path |-> path, gets |-> 0]
    ELSE IF component_id.id \notin DOMAIN tbl
         THEN [ok |-> TRUE, path |-> path, gets |-> 1]
    ELSE LET doc == tbl[component_id.id]
             rest == IF doc.kind = "App"
                     THEN walk_up_TruncatesAtMissing(tbl, RootId, path)
                     ELSE walk_up_TruncatesAtMissing(tbl, ChildId(doc.parent),
                                                     Append(path, doc.name))
         IN [rest EXCEPT !.gets = rest.gets + 1]

\* A loop that reads the record of the component alone and takes its parent
\* for the root.
walk_up_StopsAtParent(tbl, component_id, path) ==
    IF component_id.kind = "Root" THEN [ok |-> TRUE, path |-> path, gets |-> 0]
    ELSE IF component_id.id \notin DOMAIN tbl
         THEN [ok |-> FALSE, err |-> "ComponentMissing", gets |-> 1]
    ELSE LET doc == tbl[component_id.id]
         IN [ok |-> TRUE,
             path |-> IF doc.kind = "App" THEN path
                      ELSE Append(path, doc.name),
             gets |-> 1]

\* The while loop of get_component_path: names pushed leaf first. `gets`
\* counts the iterations of the loop, one tx.get each.
RECURSIVE walk_up(_, _, _)
walk_up(tbl, component_id, path) ==
    IF component_id.kind = "Root" THEN [ok |-> TRUE, path |-> path, gets |-> 0]
    ELSE IF component_id.id \notin DOMAIN tbl
         THEN [ok |-> FALSE, err |-> "ComponentMissing", gets |-> 1]
    ELSE LET doc == tbl[component_id.id]
             rest == IF doc.kind = "App" THEN walk_up(tbl, RootId, path)
                     ELSE walk_up(tbl, ChildId(doc.parent),
                                  Append(path, doc.name))
         IN [rest EXCEPT !.gets = rest.gets + 1]

get_component_path_NoReverse(tbl, component_id) ==
    LET w == walk_up(tbl, component_id, <<>>)
    IN IF w.ok THEN [ok |-> TRUE, path |-> w.path]
       ELSE [ok |-> FALSE, err |-> w.err]

get_component_path(tbl, component_id) ==
    LET w == walk_up(tbl, component_id, <<>>)
    IN IF w.ok THEN [ok |-> TRUE, path |-> Reverse(w.path)]
       ELSE [ok |-> FALSE, err |-> w.err]

(***************************************************************************)
(* Writes to the _components table (SystemMetadataModel::insert).          *)
(***************************************************************************)

\* The by_parent_and_name index key of a document.
IndexKey(meta) == <<meta.parent, meta.name>>

insert_component_NoUniqueness(tbl, meta) ==
    [ok |-> TRUE, id |-> Cardinality(DOMAIN tbl) + 1]

\* The defining index rejects a second document with the same key.
insert_component(tbl, meta) ==
    IF \E i \in DOMAIN tbl : IndexKey(tbl[i]) = IndexKey(meta)
    THEN [ok |-> FALSE, err |-> "IndexRejected"]
    ELSE [ok |-> TRUE, id |-> Cardinality(DOMAIN tbl) + 1]

\* A component whose parent already exists (or the App component) is written.
InsertComponent ==
    /\ \E meta \in {AppMetadata(d) : d \in DefinitionIds}
                \cup {ChildMetadata(d, p, n) : d \in DefinitionIds,
                                               p \in DOMAIN components,
                                               n \in ComponentNames} :
        LET r == insert_component(components, meta)
        IN /\ r.ok => Cardinality(DOMAIN components) < MaxComponents
           /\ components' = IF r.ok THEN Put(components, r.id, meta)
                            ELSE components
           /\ comp_result' = [op |-> "insert", meta |-> meta, result |-> r]
           /\ UNCHANGED <<definitions, doc_vars, database>>

ResolvePath ==
    \E path \in ComponentPaths :
        /\ comp_result' = [op |-> "resolve_path", path |-> path,
                           result |-> resolve_path(components, path),
                           lookups |-> resolve_path_lookups(components,
                                                            path).lookups]
        /\ UNCHANGED <<components, definitions, doc_vars, database>>

GetComponentPath ==
    \E cid \in {RootId} \cup {ChildId(i) : i \in InternalIds} :
        /\ comp_result' = [op |-> "get_component_path", component_id |-> cid,
                           result |-> get_component_path(components, cid),
                           gets |-> walk_up(components, cid, <<>>).gets]
        /\ UNCHANGED <<components, definitions, doc_vars, database>>

RootComponent ==
    /\ comp_result' = [op |-> "root_component",
                       result |-> root_component(components)]
    /\ UNCHANGED <<components, definitions, doc_vars, database>>

\* ComponentDefinitionId::Root / ComponentDefinitionId::Child(internal_id)
RootDefinitionId == [kind |-> "Root"]
ChildDefinitionId(d) == [kind |-> "Child", id |-> d]

\* component_definition: the definition id on the record of the component.
component_definition(tbl, component) ==
    IF component.kind = "Root" THEN [ok |-> TRUE, val |-> RootDefinitionId]
    ELSE IF component.id \notin DOMAIN tbl
         THEN [ok |-> FALSE, err |-> "ComponentMissing"]
    ELSE [ok |-> TRUE, val |-> ChildDefinitionId(tbl[component.id].definition_id)]

\* A function that resolves the root path like any other path.
function_path_to_module_AlwaysResolves(tbl, path) ==
    LET r == resolve_path_lookups(tbl, path.component)
    IN IF ~r.result.some
       THEN [ok |-> FALSE, err |-> "ComponentNotFound",
             lookups |-> r.lookups]
       ELSE [ok |-> TRUE,
             val |-> [component |->
                          ChildDefinitionId(tbl[r.result.val].definition_id),
                      module_path |-> path.udf_path.module],
             lookups |-> r.lookups]

\* function_path_to_module: the CanonicalizedComponentModulePath, with the
\* component_in_parent calls made on the way.
function_path_to_module(tbl, path) ==
    IF path.component = <<>>
    THEN [ok |-> TRUE,
          val |-> [component |-> RootDefinitionId,
                   module_path |-> path.udf_path.module],
          lookups |-> <<>>]
    ELSE LET r == resolve_path_lookups(tbl, path.component)
         IN IF ~r.result.some
            THEN [ok |-> FALSE, err |-> "ComponentNotFound",
                  lookups |-> r.lookups]
            ELSE [ok |-> TRUE,
                  val |-> [component |->
                               ChildDefinitionId(tbl[r.result.val].definition_id),
                           module_path |-> path.udf_path.module],
                  lookups |-> r.lookups]

ComponentDefinition ==
    \E cid \in {RootId} \cup {ChildId(i) : i \in InternalIds} :
        /\ comp_result' = [op |-> "component_definition", component |-> cid,
                           result |-> component_definition(components, cid)]
        /\ UNCHANGED <<components, definitions, doc_vars, database>>

FunctionPathToModule ==
    \E component \in ComponentPaths, module \in {"a.js"} :
        LET path == [component |-> component,
                     udf_path |-> [module |-> module, function |-> "f"]]
            out == function_path_to_module(components, path)
        IN /\ comp_result' = [op |-> "function_path_to_module", path |-> path,
                              result |-> [x \in DOMAIN out \ {"lookups"} |-> out[x]],
                              lookups |-> out.lookups]
           /\ UNCHANGED <<components, definitions, doc_vars, database>>

\* The transaction of a database that holds no component yet.
InitComp ==
    /\ components = <<>>
    /\ definitions = <<>>
    /\ comp_result = [op |-> "new"]
    /\ identity = "system"
    /\ falling_behind = FALSE
    /\ table_mapping = InitialTables
    /\ docs = InitialDocs
    /\ next_id = FirstGeneratedId
    /\ next_creation_time = FirstGeneratedId
    /\ reads = 0
    /\ uf_result = [op |-> "new"]
    /\ backend_state = "Running"
    /\ database = Database(table_mapping, docs, backend_state)

NextComp ==
    \/ InsertComponent
    \/ ResolvePath
    \/ GetComponentPath
    \/ RootComponent

SpecComp == InitComp /\ [][NextComp]_vars

\* The component tree with the lookups of definition ids.
NextModule ==
    \/ InsertComponent
    \/ ComponentDefinition
    \/ FunctionPathToModule

SpecModule == InitComp /\ [][NextModule]_vars

\* Data corruption: the record of a component is lost from the table, the
\* records that name it as their parent staying behind.
LoseComponent ==
    /\ \E i \in DOMAIN components :
        /\ components' = [j \in DOMAIN components \ {i} |-> components[j]]
        /\ comp_result' = [op |-> "lose", id |-> i]
    /\ UNCHANGED <<definitions, doc_vars, database>>

\* The component tree with records getting lost. Components are no longer
\* added once a record below the highest one is lost, so that the id of an
\* insert is never that of a record in the table.
NextCompLoss ==
    \/ /\ DOMAIN components = 1..Cardinality(DOMAIN components)
       /\ InsertComponent
    \/ LoseComponent
    \/ ResolvePath
    \/ GetComponentPath

SpecCompLoss == InitComp /\ [][NextCompLoss]_vars

(***************************************************************************)
(* The _component_definitions table and load_all_definitions.              *)
(***************************************************************************)

\* ComponentDefinitionPath values: the root definition and two others.
DefinitionPaths == {"", "../app/child", "../app/lib"}

\* ComponentDefinitionMetadata { path, definition_type, .. }
ComponentDefinitionMetadata(path, definition_type) ==
    [path |-> path, definition_type |-> definition_type]

\* ParsedDocument<ComponentDefinitionMetadata>
ParsedDocument(id, value) == [id |-> id, value |-> value]

\* The query loop without the ensure!: BTreeMap::insert replaces the entry
\* of a path that is already in the map.
RECURSIVE load_all_definitions_Overwrites(_, _, _)
load_all_definitions_Overwrites(tbl, i, acc) ==
    IF i \notin DOMAIN tbl THEN [ok |-> TRUE, definitions |-> acc]
    ELSE load_all_definitions_Overwrites(tbl, i + 1,
             [p \in DOMAIN acc \cup {tbl[i].path} |->
                 IF p = tbl[i].path THEN ParsedDocument(i, tbl[i])
                 ELSE acc[p]])

\* The query loop of load_all_definitions from document i on (full table
\* scan, ascending), `acc` the BTreeMap built so far.
RECURSIVE load_all_definitions_from(_, _, _)
load_all_definitions_from(tbl, i, acc) ==
    IF i \notin DOMAIN tbl THEN [ok |-> TRUE, definitions |-> acc]
    ELSE IF tbl[i].path \in DOMAIN acc
         THEN [ok |-> FALSE, err |-> "DuplicateDefinitionPath"]
    ELSE load_all_definitions_from(tbl, i + 1,
             [p \in DOMAIN acc \cup {tbl[i].path} |->
                 IF p = tbl[i].path THEN ParsedDocument(i, tbl[i])
                 ELSE acc[p]])

load_all_definitions(tbl) == load_all_definitions_from(tbl, 1, <<>>)

\* SystemMetadataModel::insert into the definitions table: the document
\* gets the next id; no index of the table is keyed by the path.
InsertDefinition ==
    /\ Cardinality(DOMAIN definitions) < MaxDefinitions
    /\ \E path \in DefinitionPaths, ty \in {"App", "ChildComponent"} :
        LET meta == ComponentDefinitionMetadata(path, ty)
            id == Cardinality(DOMAIN definitions) + 1
        IN /\ definitions' = Put(definitions, id, meta)
           /\ comp_result' = [op |-> "insert_definition", id |-> id,
                              meta |-> meta]
    /\ UNCHANGED <<components, doc_vars, database>>

LoadAllDefinitions ==
    /\ comp_result' = [op |-> "load_all_definitions",
                       result |-> load_all_definitions(definitions)]
    /\ UNCHANGED <<components, definitions, doc_vars, database>>

\* The definition of the root component, or the definition with the id.
load_definition(comps, tbl, id) ==
    LET root == root_component(comps)
    IN IF id.kind = "Root" /\ ~root.some
       THEN [ok |-> FALSE, err |-> "MissingRootComponent"]
       ELSE LET internal_id == IF id.kind = "Root"
                               THEN comps[root.val].definition_id
                               ELSE id.id
            IN IF internal_id \notin DOMAIN tbl
               THEN [ok |-> FALSE, err |-> "MissingComponentDefinition"]
               ELSE [ok |-> TRUE,
                     doc |-> ParsedDocument(internal_id, tbl[internal_id])]

LoadDefinition ==
    \E id \in {RootDefinitionId} \cup {ChildDefinitionId(d) : d \in DefinitionIds} :
        /\ comp_result' = [op |-> "load_definition", id |-> id,
                           result |-> load_definition(components, definitions,
                                                      id)]
        /\ UNCHANGED <<components, definitions, doc_vars, database>>

NextDef ==
    \/ InsertDefinition
    \/ LoadAllDefinitions
    \/ LoadDefinition

SpecDef == InitComp /\ [][NextDef]_vars

(***************************************************************************)
(* UserFacingModel::get_batch                                              *)
(***************************************************************************)

OkNone == [kind |-> "Ok", found |-> FALSE]
OkSome(doc, ts) == [kind |-> "Ok", found |-> TRUE, doc |-> doc, ts |-> ts]
Err(e) == [kind |-> "Err", err |-> e]

\* VirtualTable::get: the adapter's documents are fixed; `bad` holds the ids
\* whose fetch fails in the store.
virtual_get(id, bad) ==
    IF id \in bad THEN Err("VirtualFetchFailed")
    ELSE IF id.internal_id \in 1..2
         THEN OkSome([id |-> id, size |-> id.internal_id, creation_time |-> 1],
                     "Committed")
         ELSE OkNone

\* tx.reads.record_read_document: the read is added to the transaction's
\* total, and the call fails once the total is over the limit.
record_read_document(rd, size) ==
    [reads |-> rd + size, ok |-> rd + size <= ReadSizeLimit]

\* tx.get_inner_batch: one result per staged key.
get_inner_batch(dcs, ids_to_fetch, bad) ==
    [k \in DOMAIN ids_to_fetch |->
        LET rid == ids_to_fetch[k].id
        IN IF developer_id(rid) \in bad THEN Err("FetchFailed")
           ELSE IF rid \in DOMAIN dcs
                THEN OkSome([id |-> rid, size |-> dcs[rid].size,
                             creation_time |-> dcs[rid].creation_time],
                            dcs[rid].ts)
                ELSE OkNone]

\* assert!(results.insert(batch_key, r).is_none())
insert_result(acc, k, r) ==
    [acc EXCEPT !.results = Put(acc.results, k, r),
                !.panic = acc.panic \/ k \in DOMAIN acc.results]

\* The order in which get_batch does its work: one event per step, with the
\* batch keys the step is about.
log_event(acc, ev, keys) ==
    [acc EXCEPT !.events = Append(acc.events, [ev |-> ev, keys |-> keys])]

\* Stage 1 for one entry whose table number is absent from both mappings,
\* leaving the loop without a result for the key.
resolve_missing_table_NoResult(acc, k) == acc

\* Stage 1 for one entry whose table number is absent from both mappings,
\* reporting the missing table as an error.
resolve_missing_table_IsError(acc, k) ==
    insert_result(acc, k, Err("TableNotFound"))

\* Stage 1 for one entry whose table number is absent from both mappings.
resolve_missing_table(acc, k) == insert_result(acc, k, OkNone)

\* Stage 1 for one entry that stops recording results once an entry failed.
resolve_virtual_AbortOnError(acc, k, id, bad) ==
    LET g == virtual_get(id, bad)
    IN IF \E j \in DOMAIN acc.results : acc.results[j].kind = "Err" THEN acc
       ELSE IF g.kind = "Err" THEN insert_result(acc, k, g)
       ELSE IF g.found
       THEN LET rr == record_read_document(acc.reads, g.doc.size)
                a2 == [acc EXCEPT !.reads = rr.reads]
            IN IF rr.ok THEN insert_result(a2, k, g)
               ELSE insert_result(a2, k, Err("TooManyBytesRead"))
       ELSE insert_result(acc, k, OkNone)

\* Stage 1 for one entry of a virtual table that records a read of size 0
\* for a document that was not found.
resolve_virtual_RecordsMisses(acc, k, id, bad) ==
    LET g == virtual_get(id, bad)
        a0 == log_event(acc, "virtual_get", {k})
        size == IF g.found THEN g.doc.size ELSE 0
    IN IF g.kind = "Err" THEN insert_result(a0, k, g)
       ELSE LET rr == record_read_document(a0.reads, size)
                a2 == [a0 EXCEPT !.reads = rr.reads,
                                 !.read_calls = Append(a0.read_calls,
                                     [table |-> NameOfNumber(id.table),
                                      size |-> size, virtual |-> TRUE])]
            IN IF ~rr.ok THEN insert_result(a2, k, Err("TooManyBytesRead"))
               ELSE IF g.found THEN insert_result(a2, k, g)
               ELSE insert_result(a2, k, OkNone)

\* Stage 1 for one entry of a virtual table: fetched at once, and the read of
\* a found document is recorded before its result is stored.
resolve_virtual(acc, k, id, bad) ==
    LET g == virtual_get(id, bad)
        a0 == log_event(acc, "virtual_get", {k})
    IN IF g.kind = "Err" THEN insert_result(a0, k, g)
       ELSE IF g.found
       THEN LET rr == record_read_document(a0.reads, g.doc.size)
                a2 == [a0 EXCEPT !.reads = rr.reads,
                                 !.read_calls = Append(a0.read_calls,
                                     [table |-> NameOfNumber(id.table),
                                      size |-> g.doc.size, virtual |-> TRUE])]
            IN IF rr.ok THEN insert_result(a2, k, g)
               ELSE insert_result(a2, k, Err("TooManyBytesRead"))
       ELSE insert_result(a0, k, OkNone)

\* Stage 1 for one entry: the body of the first loop of get_batch.
resolve_entry(tm, acc, k, id, bad) ==
    IF virtual_number_exists(id.table) THEN resolve_virtual(acc, k, id, bad)
    ELSE IF ~table_number_exists(tm, id.table)
         THEN resolve_missing_table(acc, k)
    ELSE LET m == inject_table_id(tm, id)
         IN IF ~m.ok THEN insert_result(acc, k, Err(m.err))
            ELSE [acc EXCEPT !.ids_to_fetch =
                      Put(acc.ids_to_fetch, k,
                          [id |-> m.id, table_name |-> NameOfNumber(id.table)])]

\* The first loop of get_batch, in batch key order.
RECURSIVE stage1(_, _, _, _, _)
stage1(tm, acc, keys, ids, bad) ==
    IF keys = {} THEN acc
    ELSE LET k == Min(keys)
         IN stage1(tm, log_event(resolve_entry(tm, acc, k, ids[k], bad),
                                 "resolved", {k}),
                   keys \ {k}, ids, bad)

\* Stage 3 for one fetched entry.
materialize(acc, k, inner_result) ==
    LET a0 == log_event(acc, "materialize", {k})
    IN IF inner_result.kind = "Err" THEN insert_result(a0, k, inner_result)
       ELSE IF inner_result.found
            THEN insert_result(a0, k, OkSome(to_developer(inner_result.doc),
                                             inner_result.ts))
            ELSE insert_result(a0, k, OkNone)

\* A second loop that reads the first fetched result for every key.
stage3_SharedResult(acc, keys, fetched) ==
    LET first == fetched[Min(DOMAIN fetched)]
        RECURSIVE loop(_, _)
        loop(a, ks) ==
            IF ks = {} THEN a
            ELSE loop(materialize(a, Min(ks), first), ks \ {Min(ks)})
    IN loop(acc, keys)

\* The second loop of get_batch, over the fetched results.
RECURSIVE stage3(_, _, _)
stage3(acc, keys, fetched) ==
    IF keys = {} THEN acc
    ELSE LET k == Min(keys)
         IN stage3(materialize(acc, k, fetched[k]), keys \ {k}, fetched)

\* The accumulators of get_batch before its first loop.
NewBatch(rd) ==
    [results |-> <<>>, ids_to_fetch |-> <<>>, reads |-> rd,
     read_calls |-> <<>>, events |-> <<>>, panic |-> FALSE]

\* A get_batch that fetches and materializes each physical entry as soon as
\* it is resolved, one store call per entry.
get_batch_FetchPerEntry(tm, dcs, rd, ids, bad) ==
    LET RECURSIVE loop(_, _)
        loop(acc, keys) ==
            IF keys = {} THEN acc
            ELSE LET k == Min(keys)
                     a1 == log_event(resolve_entry(tm, acc, k, ids[k], bad),
                                     "resolved", {k})
                     staged == [j \in DOMAIN a1.ids_to_fetch \cap {k} |->
                                   a1.ids_to_fetch[j]]
                     fetched == get_inner_batch(dcs, staged, bad)
                     a2 == log_event(a1, "get_inner_batch", DOMAIN staged)
                 IN loop(IF DOMAIN staged = {} THEN a1
                         ELSE stage3(a2, DOMAIN fetched, fetched),
                         keys \ {k})
    IN loop(NewBatch(rd), DOMAIN ids)

\* get_batch(ids) on a transaction with table mapping tm, documents dcs and
\* read total rd. The final assert_eq!(results.len(), batch_size) panics.
get_batch(tm, dcs, rd, ids, bad) ==
    LET acc0 == NewBatch(rd)
        acc1 == stage1(tm, acc0, DOMAIN ids, ids, bad)
        fetched == get_inner_batch(dcs, acc1.ids_to_fetch, bad)
        acc2 == log_event(acc1, "get_inner_batch", DOMAIN acc1.ids_to_fetch)
        acc3 == stage3(acc2, DOMAIN fetched, fetched)
    IN [acc3 EXCEPT !.panic =
           acc3.panic
           \/ Cardinality(DOMAIN acc3.results) # Cardinality(DOMAIN ids)]

\* A get_with_ts that reports a failed entry of the batch as a document
\* that is not there.
get_with_ts_SwallowsError(tm, dcs, rd, id, bad) ==
    LET out == get_batch(tm, dcs, rd, [k \in {0} |-> id], bad)
    IN [reads |-> out.reads,
        result |-> IF 0 \in DOMAIN out.results /\ out.results[0].kind = "Ok"
                   THEN out.results[0]
                   ELSE OkNone]

\* get_with_ts(id): a get_batch of the single key 0, whose result is taken out
\* of the map (a missing key is an error).
get_with_ts(tm, dcs, rd, id, bad) ==
    LET out == get_batch(tm, dcs, rd, [k \in {0} |-> id], bad)
    IN [reads |-> out.reads,
        result |-> IF 0 \in DOMAIN out.results THEN out.results[0]
                   ELSE Err("get_batch missing batch key")]

\* get(id): get_with_ts without the write timestamp.
get(tm, dcs, rd, id, bad) ==
    LET g == get_with_ts(tm, dcs, rd, id, bad)
    IN [reads |-> g.reads,
        result |-> IF g.result.kind = "Ok" /\ g.result.found
                   THEN [kind |-> "Ok", found |-> TRUE, doc |-> g.result.doc]
                   ELSE g.result]

\* The identifiers the model requests: two per physical table number, three
\* of the virtual table (the adapter has no document for the third).
BatchIds ==
    {DeveloperId(TableNumber(t), i) : t \in {FilesTable, MsgsTable}, i \in 1..2}
    \cup {DeveloperId(TableNumber(SysTable), 1)}
    \cup {DeveloperId(TableNumber(StorageTable), i) : i \in 1..3}

Batches == UNION {[0..(n - 1) -> BatchIds] : n \in 0..MaxBatch}

\* The caller takes the returned value and goes on.
Continue ==
    /\ uf_result.op # "idle"
    /\ uf_result' = [op |-> "idle"]
    /\ UNCHANGED <<comp_vars, tx_vars, database>>

GetBatch ==
    /\ uf_result.op = "idle"
    /\ reads <= ReadSizeLimit
    /\ \E ids \in Batches :
       \E bad \in {{}} \cup {{ids[k]} : k \in DOMAIN ids} :
        LET out == get_batch(table_mapping, docs, reads, ids, bad)
        IN /\ uf_result' = [op |-> "get_batch", ids |-> ids, bad |-> bad,
                            pre_reads |-> reads, out |-> out]
           /\ reads' = out.reads
    /\ UNCHANGED <<comp_vars, database, backend_state, identity, falling_behind,
                   table_mapping, docs,
                   next_id, next_creation_time>>

\* A new transaction over a database whose user tables hold some documents.
InitBatch ==
    /\ components = <<>>
    /\ definitions = <<>>
    /\ comp_result = [op |-> "new"]
    /\ identity = "user"
    /\ falling_behind = FALSE
    /\ table_mapping \in {InitialTables, InitialTables \cup {MsgsTable}}
    /\ \E present \in SUBSET {DeveloperId(TableNumber(t), i) :
                                t \in table_mapping \ {SysTable}, i \in 1..2} :
        docs = [rid \in DOMAIN InitialDocs
                        \cup {inject_table_id(table_mapping, d).id : d \in present}
                |-> [size |-> rid.internal_id, creation_time |-> 1,
                     ts |-> "Committed"]]
    /\ next_id = FirstGeneratedId
    /\ next_creation_time = FirstGeneratedId
    /\ reads \in 0..ReadSizeLimit
    /\ uf_result = [op |-> "idle"]
    /\ backend_state = "Running"
    /\ database = Database(table_mapping, docs, backend_state)

NextBatch ==
    \/ GetBatch
    \/ Continue

SpecBatch == InitBatch /\ [][NextBatch]_vars

(***************************************************************************)
(* UserFacingModel::insert, patch, replace, delete                         *)
(***************************************************************************)

DocSizes == 1..(UserSizeCeiling + 1)

\* value::check_user_size
check_user_size(size) == size <= UserSizeCeiling

\* The error kinds of ErrorMetadata behind each failure.
ErrorClass(e) ==
    CASE e \in {"ReadOnlyTable", "InvalidTableName", "ValueTooLargeError"}
            -> "BadRequest"
      [] e = "Unauthorized" -> "Forbidden"
      [] e = "RetentionFallingBehind" -> "Overloaded"
      [] e \in {"DocumentNotFound", "TableNotFound"} -> "NotFound"
      [] OTHER -> "Internal"

is_privileged(ident) == ident = "admin" \/ ident = "system"

\* A transaction as the operations see it.
Tx(ident, behind, tm, dcs, nid, nct) ==
    [identity |-> ident, falling_behind |-> behind, table_mapping |-> tm,
     docs |-> dcs, next_id |-> nid, next_creation_time |-> nct]

Rejected(tx, e) == [tx |-> tx, result |-> Err(e), store_calls |-> <<>>]

\* A failure that the store call `call` returned, or that follows it.
RejectedBy(tx, e, call) ==
    [tx |-> tx, result |-> Err(e), store_calls |-> <<call>>]

\* The two writes of insert in the opposite order: the document first.
insert_writes_DocumentFirst(tx, table, id, creation_time, size, failMeta, failDoc) ==
    LET rid == ResolvedId(TabletOf(table), id.internal_id)
        tx1 == [tx EXCEPT !.docs = Put(tx.docs, rid,
                    [size |-> size, creation_time |-> creation_time,
                     ts |-> "Pending"])]
    IN IF failDoc THEN Rejected(tx, "InsertDocumentFailed")
       ELSE IF failMeta THEN Rejected(tx1, "TableMetadataFailed")
       ELSE [tx |-> [tx1 EXCEPT !.table_mapping = tx.table_mapping \cup {table}],
             result |-> [kind |-> "Ok", id |-> id]]

\* Lines 215-226 of insert: TableModel::insert_table_metadata, then
\* ResolvedDocument::new and tx.insert_document; each of them may fail.
insert_writes(tx, table, id, creation_time, size, failMeta, failDoc) ==
    IF failMeta THEN Rejected(tx, "TableMetadataFailed")
    ELSE LET tx1 == [tx EXCEPT !.table_mapping = tx.table_mapping \cup {table}]
             m == inject_table_id(tx1.table_mapping, id)
         IN IF ~m.ok THEN Rejected(tx1, m.err)
            ELSE IF failDoc THEN Rejected(tx1, "InsertDocumentFailed")
            ELSE [tx |-> [tx1 EXCEPT !.docs = Put(tx1.docs, m.id,
                              [size |-> size, creation_time |-> creation_time,
                               ts |-> "Pending"])],
                  result |-> [kind |-> "Ok", id |-> developer_id(m.id)]]

\* An insert without the size check.
insert_NoSizeCheck(tx, table, size, failMeta, failDoc) ==
    IF is_virtual_table(table) THEN Rejected(tx, "ReadOnlyTable")
    ELSE IF tx.falling_behind THEN Rejected(tx, "RetentionFallingBehind")
    ELSE LET id == DeveloperId(TableNumber(table), tx.next_id)
             tx1 == [tx EXCEPT !.next_id = tx.next_id + 1,
                               !.next_creation_time = tx.next_creation_time + 1]
         IN IF is_system_name(table) THEN Rejected(tx1, "InvalidTableName")
            ELSE insert_writes(tx1, table, id, tx.next_creation_time, size,
                               failMeta, failDoc)

\* An insert that checks the reserved prefix after the table record is written.
insert_LatePrefixCheck(tx, table, size, failMeta, failDoc) ==
    IF is_virtual_table(table) THEN Rejected(tx, "ReadOnlyTable")
    ELSE IF ~check_user_size(size) THEN Rejected(tx, "ValueTooLargeError")
    ELSE IF tx.falling_behind THEN Rejected(tx, "RetentionFallingBehind")
    ELSE LET id == DeveloperId(TableNumber(table), tx.next_id)
             tx1 == [tx EXCEPT !.next_id = tx.next_id + 1,
                               !.next_creation_time = tx.next_creation_time + 1]
             w == insert_writes(tx1, table, id, tx.next_creation_time, size,
                                failMeta, TRUE)
         IN IF is_system_name(table) THEN Rejected(w.tx, "InvalidTableName")
            ELSE insert_writes(tx1, table, id, tx.next_creation_time, size,
                               failMeta, failDoc)

\* An insert that draws the id and the creation time before any check.
insert_EarlyIdGeneration(tx, table, size, failMeta, failDoc) ==
    LET id == DeveloperId(TableNumber(table), tx.next_id)
        tx1 == [tx EXCEPT !.next_id = tx.next_id + 1,
                          !.next_creation_time = tx.next_creation_time + 1]
    IN IF is_virtual_table(table) THEN Rejected(tx1, "ReadOnlyTable")
       ELSE IF ~check_user_size(size) THEN Rejected(tx1, "ValueTooLargeError")
       ELSE IF tx.falling_behind THEN Rejected(tx1, "RetentionFallingBehind")
       ELSE IF is_system_name(table) THEN Rejected(tx1, "InvalidTableName")
       ELSE insert_writes(tx1, table, id, tx.next_creation_time, size,
                          failMeta, failDoc)

\* An insert that checks the reserved prefix first.
insert_PrefixCheckFirst(tx, table, size, failMeta, failDoc) ==
    IF is_system_name(table) THEN Rejected(tx, "InvalidTableName")
    ELSE IF is_virtual_table(table) THEN Rejected(tx, "ReadOnlyTable")
    ELSE IF ~check_user_size(size) THEN Rejected(tx, "ValueTooLargeError")
    ELSE IF tx.falling_behind THEN Rejected(tx, "RetentionFallingBehind")
    ELSE LET id == DeveloperId(TableNumber(table), tx.next_id)
             tx1 == [tx EXCEPT !.next_id = tx.next_id + 1,
                               !.next_creation_time = tx.next_creation_time + 1]
         IN insert_writes(tx1, table, id, tx.next_creation_time, size,
                          failMeta, failDoc)

\* UserFacingModel::insert(table, value); the value is modelled by its size.
insert(tx, table, size, failMeta, failDoc) ==
    IF is_virtual_table(table) THEN Rejected(tx, "ReadOnlyTable")
    ELSE IF ~check_user_size(size) THEN Rejected(tx, "ValueTooLargeError")
    ELSE IF tx.falling_behind THEN Rejected(tx, "RetentionFallingBehind")
    ELSE LET id == DeveloperId(TableNumber(table), tx.next_id)
             tx1 == [tx EXCEPT !.next_id = tx.next_id + 1,
                               !.next_creation_time = tx.next_creation_time + 1]
         IN IF is_system_name(table) THEN Rejected(tx1, "InvalidTableName")
            ELSE insert_writes(tx1, table, id, tx.next_creation_time, size,
                               failMeta, failDoc)

\* The authorization check that opens patch, replace and delete.
is_authorized_SystemOnly(tx, id) ==
    ~(is_system(tx.table_mapping, id.table) /\ tx.identity # "system")

is_authorized(tx, id) ==
    ~(is_system(tx.table_mapping, id.table) /\ ~is_privileged(tx.identity))

ResolvedDoc(dcs, rid) ==
    [id |-> rid, size |-> dcs[rid].size, creation_time |-> dcs[rid].creation_time]

\* A patch that does not consult the retention validator.
patch_NoRetentionCheck(tx, id, size) ==
    IF ~is_authorized(tx, id) THEN Rejected(tx, "Unauthorized")
    ELSE LET m == inject_table_id(tx.table_mapping, id)
         IN IF ~m.ok THEN Rejected(tx, m.err)
            ELSE IF m.id \notin DOMAIN tx.docs
                 THEN RejectedBy(tx, "DocumentNotFound", "patch_inner")
            ELSE LET tx1 == [tx EXCEPT !.docs[m.id].size = size,
                                       !.docs[m.id].ts = "Pending"]
                 IN IF ~is_system(tx.table_mapping, id.table)
                       /\ ~check_user_size(size)
                    THEN RejectedBy(tx1, "ValueTooLargeError", "patch_inner")
                    ELSE [tx |-> tx1,
                          result |-> [kind |-> "Ok",
                                      doc |-> to_developer(ResolvedDoc(tx1.docs, m.id))],
                          store_calls |-> <<"patch_inner">>]

\* A patch that does not check the size of the patched document.
patch_NoSizeCheck(tx, id, size) ==
    IF ~is_authorized(tx, id) THEN Rejected(tx, "Unauthorized")
    ELSE IF tx.falling_behind THEN Rejected(tx, "RetentionFallingBehind")
    ELSE LET m == inject_table_id(tx.table_mapping, id)
         IN IF ~m.ok THEN Rejected(tx, m.err)
            ELSE IF m.id \notin DOMAIN tx.docs
                 THEN RejectedBy(tx, "DocumentNotFound", "patch_inner")
            ELSE LET tx1 == [tx EXCEPT !.docs[m.id].size = size,
                                       !.docs[m.id].ts = "Pending"]
                 IN [tx |-> tx1,
                     result |-> [kind |-> "Ok",
                                 doc |-> to_developer(ResolvedDoc(tx1.docs, m.id))],
                     store_calls |-> <<"patch_inner">>]

\* UserFacingModel::patch(id, value); the patch is modelled by the size of
\* the merged document.
patch(tx, id, size) ==
    IF ~is_authorized(tx, id) THEN Rejected(tx, "Unauthorized")
    ELSE IF tx.falling_behind THEN Rejected(tx, "RetentionFallingBehind")
    ELSE LET m == inject_table_id(tx.table_mapping, id)
         IN IF ~m.ok THEN Rejected(tx, m.err)
            ELSE IF m.id \notin DOMAIN tx.docs
                 THEN RejectedBy(tx, "DocumentNotFound", "patch_inner")
            ELSE LET tx1 == [tx EXCEPT !.docs[m.id].size = size,
                                       !.docs[m.id].ts = "Pending"]
                 IN IF ~is_system(tx.table_mapping, id.table)
                       /\ ~check_user_size(size)
                    THEN RejectedBy(tx1, "ValueTooLargeError", "patch_inner")
                    ELSE [tx |-> tx1,
                          result |-> [kind |-> "Ok",
                                      doc |-> to_developer(ResolvedDoc(tx1.docs, m.id))],
                          store_calls |-> <<"patch_inner">>]

\* A replace that consults the retention validator before the identity.
replace_RetentionFirst(tx, id, size) ==
    IF tx.falling_behind THEN Rejected(tx, "RetentionFallingBehind")
    ELSE IF ~is_authorized(tx, id) THEN Rejected(tx, "Unauthorized")
    ELSE IF ~is_system(tx.table_mapping, id.table) /\ ~check_user_size(size)
         THEN Rejected(tx, "ValueTooLargeError")
    ELSE LET m == inject_table_id(tx.table_mapping, id)
         IN IF ~m.ok THEN Rejected(tx, m.err)
            ELSE IF m.id \notin DOMAIN tx.docs
                 THEN RejectedBy(tx, "DocumentNotFound", "replace_inner")
            ELSE LET tx1 == [tx EXCEPT !.docs[m.id].size = size,
                                       !.docs[m.id].ts = "Pending"]
                 IN [tx |-> tx1,
                     result |-> [kind |-> "Ok",
                                 doc |-> to_developer(ResolvedDoc(tx1.docs, m.id))],
                     store_calls |-> <<"replace_inner">>]

\* UserFacingModel::replace(id, value)
replace(tx, id, size) ==
    IF ~is_authorized(tx, id) THEN Rejected(tx, "Unauthorized")
    ELSE IF ~is_system(tx.table_mapping, id.table) /\ ~check_user_size(size)
         THEN Rejected(tx, "ValueTooLargeError")
    ELSE IF tx.falling_behind THEN Rejected(tx, "RetentionFallingBehind")
    ELSE LET m == inject_table_id(tx.table_mapping, id)
         IN IF ~m.ok THEN Rejected(tx, m.err)
            ELSE IF m.id \notin DOMAIN tx.docs
                 THEN RejectedBy(tx, "DocumentNotFound", "replace_inner")
            ELSE LET tx1 == [tx EXCEPT !.docs[m.id].size = size,
                                       !.docs[m.id].ts = "Pending"]
                 IN [tx |-> tx1,
                     result |-> [kind |-> "Ok",
                                 doc |-> to_developer(ResolvedDoc(tx1.docs, m.id))],
                     store_calls |-> <<"replace_inner">>]

\* A delete that reports the document and leaves it in place.
delete_KeepsDocument(tx, id) ==
    IF ~is_authorized(tx, id) THEN Rejected(tx, "Unauthorized")
    ELSE IF tx.falling_behind THEN Rejected(tx, "RetentionFallingBehind")
    ELSE LET m == inject_table_id(tx.table_mapping, id)
         IN IF ~m.ok THEN Rejected(tx, m.err)
            ELSE IF m.id \notin DOMAIN tx.docs
                 THEN RejectedBy(tx, "DocumentNotFound", "delete_inner")
            ELSE [tx |-> tx,
                  result |-> [kind |-> "Ok",
                              doc |-> to_developer(ResolvedDoc(tx.docs, m.id))],
                  store_calls |-> <<"delete_inner">>]

\* UserFacingModel::delete(id)
delete(tx, id) ==
    IF ~is_authorized(tx, id) THEN Rejected(tx, "Unauthorized")
    ELSE IF tx.falling_behind THEN Rejected(tx, "RetentionFallingBehind")
    ELSE LET m == inject_table_id(tx.table_mapping, id)
         IN IF ~m.ok THEN Rejected(tx, m.err)
            ELSE IF m.id \notin DOMAIN tx.docs
                 THEN RejectedBy(tx, "DocumentNotFound", "delete_inner")
            ELSE [tx |-> [tx EXCEPT !.docs =
                             [r \in DOMAIN tx.docs \ {m.id} |-> tx.docs[r]]],
                  result |-> [kind |-> "Ok",
                              doc |-> to_developer(ResolvedDoc(tx.docs, m.id))],
                  store_calls |-> <<"delete_inner">>]

CurrentTx ==
    Tx(identity, falling_behind, table_mapping, docs, next_id,
       next_creation_time)

\* The transaction after an operation that returned `out`.
TxBecomes(out) ==
    /\ table_mapping' = out.tx.table_mapping
    /\ docs' = out.tx.docs
    /\ next_id' = out.tx.next_id
    /\ next_creation_time' = out.tx.next_creation_time
    /\ UNCHANGED <<comp_vars, database, backend_state, identity, falling_behind,
                   reads>>

\* The identifiers the mutations are called with.
MutationIds ==
    {DeveloperId(TableNumber(t), i) :
        t \in {FilesTable, MsgsTable, SysTable, StorageTable},
        i \in 1..(FirstGeneratedId + MaxInserts - 1)}

Insert ==
    /\ uf_result.op = "idle"
    /\ \E table \in TableNames, size \in DocSizes,
          fail \in {"none", "metadata", "document"} :
        LET out == insert(CurrentTx, table, size, fail = "metadata",
                          fail = "document")
        IN /\ out.tx.next_id <= FirstGeneratedId + MaxInserts
           /\ uf_result' = [op |-> "insert", table |-> table, size |-> size,
                            fail |-> fail, result |-> out.result]
           /\ TxBecomes(out)

Patch ==
    /\ uf_result.op = "idle"
    /\ \E id \in MutationIds, size \in DocSizes :
        LET out == patch(CurrentTx, id, size)
        IN /\ uf_result' = [op |-> "patch", id |-> id, size |-> size,
                            result |-> out.result,
                            store_calls |-> out.store_calls]
           /\ TxBecomes(out)

Replace ==
    /\ uf_result.op = "idle"
    /\ \E id \in MutationIds, size \in DocSizes :
        LET out == replace(CurrentTx, id, size)
        IN /\ uf_result' = [op |-> "replace", id |-> id, size |-> size,
                            result |-> out.result,
                            store_calls |-> out.store_calls]
           /\ TxBecomes(out)

Delete ==
    /\ uf_result.op = "idle"
    /\ \E id \in MutationIds :
        LET out == delete(CurrentTx, id)
        IN /\ uf_result' = [op |-> "delete", id |-> id, result |-> out.result,
                            store_calls |-> out.store_calls]
           /\ TxBecomes(out)

\* The identifiers get is called with in a mutating transaction: those of the
\* physical tables.
GetIds == {id \in MutationIds : ~virtual_number_exists(id.table)}

Get ==
    /\ uf_result.op = "idle"
    /\ \E id \in GetIds : \E bad \in {{}, {id}} :
        LET out == get(table_mapping, docs, reads, id, bad)
        IN /\ uf_result' = [op |-> "get", id |-> id, bad |-> bad,
                            pre_reads |-> reads, result |-> out.result]
           /\ reads' = out.reads
    /\ UNCHANGED <<comp_vars, database, backend_state, identity, falling_behind,
                   table_mapping, docs,
                   next_id, next_creation_time>>

\* get_with_ts in a transaction that has not gone over its read limit.
GetWithTs ==
    /\ uf_result.op = "idle"
    /\ reads <= ReadSizeLimit
    /\ \E id \in BatchIds : \E bad \in {{}, {id}} :
        LET out == get_with_ts(table_mapping, docs, reads, id, bad)
        IN /\ uf_result' = [op |-> "get_with_ts", id |-> id, bad |-> bad,
                            pre_reads |-> reads, result |-> out.result]
           /\ reads' = out.reads
    /\ UNCHANGED <<comp_vars, database, backend_state, identity, falling_behind,
                   table_mapping, docs,
                   next_id, next_creation_time>>

\* Reads of single documents, with and without the write timestamp, in a
\* transaction over a database that holds some documents.
NextGet ==
    \/ GetWithTs
    \/ Get
    \/ Continue

SpecGet == InitBatch /\ [][NextGet]_vars

\* The retention validator starts or stops reporting that it falls behind.
RetentionChanges ==
    /\ uf_result.op = "idle"
    /\ falling_behind' = ~falling_behind
    /\ UNCHANGED <<comp_vars, database, backend_state, identity, table_mapping,
                   docs, next_id,
                   next_creation_time, reads, uf_result>>

\* A new transaction, of any identity, over the initial database.
InitDoc ==
    /\ components = <<>>
    /\ definitions = <<>>
    /\ comp_result = [op |-> "new"]
    /\ identity \in Identities
    /\ falling_behind = FALSE
    /\ table_mapping = InitialTables
    /\ docs = InitialDocs
    /\ next_id = FirstGeneratedId
    /\ next_creation_time = FirstGeneratedId
    /\ reads = 0
    /\ uf_result = [op |-> "idle"]
    /\ backend_state = "Running"
    /\ database = Database(table_mapping, docs, backend_state)

NextDoc ==
    \/ Insert
    \/ Patch
    \/ Replace
    \/ Delete
    \/ Get
    \/ RetentionChanges
    \/ Continue

SpecDoc == InitDoc /\ [][NextDoc]_vars

(***************************************************************************)
(* The end of a transaction: commit or abandon.                            *)
(***************************************************************************)

\* The database after the commit of a transaction: its tables, its documents
\* (no longer pending) and its backend state.
commit(db, tm, dcs, bs) ==
    [db EXCEPT !.tables = tm,
               !.docs = [rid \in DOMAIN dcs |->
                            [dcs[rid] EXCEPT !.ts = "Committed"]],
               !.backend_state = bs]

\* What a transaction that begins on the database sees.
begin(db) ==
    [table_mapping |-> db.tables, docs |-> db.docs,
     backend_state |-> db.backend_state, reads |-> 0]

\* An abandoned transaction whose table records outlive it.
abandon_KeepsTables(db, tm) ==
    begin([db EXCEPT !.tables = tm])

\* A transaction dropped without commit: the next one begins on the database
\* as it was.
abandon(db, tm) == begin(db)

\* The transaction that follows the one that ended, begun by one of callers.
TxBegins(view, callers) ==
    /\ table_mapping' = view.table_mapping
    /\ docs' = view.docs
    /\ backend_state' = view.backend_state
    /\ reads' = view.reads
    /\ identity' \in callers
    /\ UNCHANGED <<comp_vars, falling_behind, next_id, next_creation_time>>

Commit ==
    /\ uf_result.op = "idle"
    /\ database' = commit(database, table_mapping, docs, backend_state)
    /\ uf_result' = [op |-> "commit"]
    /\ TxBegins(begin(database'), Identities)

Abandon ==
    /\ uf_result.op = "idle"
    /\ database' = database
    /\ uf_result' = [op |-> "abandon",
                     staged_tables |-> table_mapping \ database.tables,
                     staged_docs |-> {rid \in DOMAIN docs :
                                        \/ rid \notin DOMAIN database.docs
                                        \/ docs[rid] # database.docs[rid]}
                                     \cup (DOMAIN database.docs \ DOMAIN docs)]
    /\ TxBegins(abandon(database, table_mapping), {identity})

NextTx ==
    \/ Insert
    \/ Patch
    \/ Replace
    \/ Delete
    \/ Abandon
    \/ Continue

\* The transactions of one caller that stage writes and are abandoned, one
\* after the other, over one database.
SpecTx == InitDoc /\ [][NextTx]_vars

(***************************************************************************)
(* UserFacingModel::index_range                                            *)
(***************************************************************************)

\* The hard maximum of a page, scaled down.
MAX_PAGE_SIZE == 2

\* The index keys of the model are 1..MaxIndexKey; the caller asks for at
\* most MaxRowsAsked rows.
MaxIndexKey == 3
MaxRowsAsked == 4

\* Interval: the keys k with start <= k < end.
Intervals ==
    {[start |-> a, end |-> b] : a \in 1..MaxIndexKey, b \in 1..(MaxIndexKey + 1)}
interval_is_empty(interval) == interval.start >= interval.end
interval_contains(interval, k) == interval.start <= k /\ k < interval.end

Orders == {"Asc", "Desc"}

CursorEnd == [kind |-> "End"]
CursorAfter(k) == [kind |-> "After", key |-> k]

\* StableIndexName::Physical / Virtual / Missing; every index is the by_id
\* index of its table.
Physical(tablet) ==
    [kind |-> "Physical", tablet_index_name |-> <<tablet, "by_id">>]
Virtual(table, tablet) ==
    [kind |-> "Virtual", index_name |-> <<table, "by_id">>,
     tablet_index_name |-> <<tablet, "by_id">>]
Missing == [kind |-> "Missing"]

StableIndexNames ==
    {Physical(TabletOf(t)) : t \in {FilesTable, MsgsTable}}
    \cup {Virtual(StorageTable, TabletOf(SysTable)), Missing}

RangeRequest(index_name, printable_index_name, interval, order, max_size) ==
    [index_name |-> index_name, printable_index_name |-> printable_index_name,
     interval |-> interval, order |-> order, max_size |-> max_size]

\* table_mapping().tablet_to_name(): the name of a tablet of the mapping.
tablet_to_name(tm, tablet_index_name) ==
    IF tablet_index_name[1][2] \in tm
    THEN [ok |-> TRUE, name |-> <<tablet_index_name[1][2], tablet_index_name[2]>>]
    ELSE [ok |-> FALSE, err |-> "TableNotFound"]

\* The keys of a set in the order of the request.
RECURSIVE InOrder(_, _)
InOrder(keys, order) ==
    IF keys = {} THEN <<>>
    ELSE LET k == IF order = "Asc" THEN Min(keys)
                  ELSE CHOOSE x \in keys : \A y \in keys : y <= x
         IN <<k>> \o InOrder(keys \ {k}, order)

\* A page of at most max_size of the rows, and the cursor after it.
page_of(rows, max_size) ==
    IF Len(rows) <= max_size THEN [page |-> rows, cursor |-> CursorEnd]
    ELSE [page |-> SubSeq(rows, 1, max_size),
          cursor |-> IF max_size = 0 THEN CursorAfter(0)
                     ELSE CursorAfter(rows[max_size][1])]

\* tx.index.range: the documents of the index inside the interval, in the
\* order asked for, at most max_size of them.
index_store_range(dcs, request, fail) ==
    IF fail THEN Err("IndexRangeFailed")
    ELSE LET keys == {rid.internal_id : rid \in
                        {r \in DOMAIN dcs :
                            /\ r.tablet = request.index_name[1]
                            /\ interval_contains(request.interval, r.internal_id)}}
             ordered == InOrder(keys, request.order)
             rows == [i \in 1..Len(ordered) |->
                        LET rid == ResolvedId(request.index_name[1], ordered[i])
                        IN <<ordered[i], ResolvedDoc(dcs, rid), dcs[rid].ts>>]
             pg == page_of(rows, request.max_size)
         IN [kind |-> "Ok", page |-> pg.page, cursor |-> pg.cursor]

\* VirtualTable::index_range: the same over the documents of the adapter.
virtual_index_range(request, fail) ==
    IF fail THEN Err("VirtualRangeFailed")
    ELSE LET keys == {k \in 1..2 : interval_contains(request.interval, k)}
             ordered == InOrder(keys, request.order)
             rows == [i \in 1..Len(ordered) |->
                        LET g == virtual_get(
                                DeveloperId(TableNumber(request.printable_index_name[1]),
                                            ordered[i]), {})
                        IN <<ordered[i], g.doc, g.ts>>]
             pg == page_of(rows, request.max_size)
         IN [kind |-> "Ok", page |-> pg.page, cursor |-> pg.cursor]

\* What index_range returns, with the requests it made of the index store
\* and of the virtual table adapter on the way.
RangeOutcome(result, store_requests, virtual_requests) ==
    [result |-> result, store_requests |-> store_requests,
     virtual_requests |-> virtual_requests]

EmptyPage == [kind |-> "Ok", page |-> <<>>, cursor |-> CursorEnd]

\* The page size handed on: the requested one.
clamp_Unclamped(max_rows) == max_rows

\* max_rows = cmp::min(max_rows, MAX_PAGE_SIZE)
clamp(max_rows) == IF max_rows <= MAX_PAGE_SIZE THEN max_rows ELSE MAX_PAGE_SIZE

\* The Virtual arm: the request goes to the virtual table adapter.
range_virtual(stable_index_name, interval, order, max_rows, fail) ==
    LET request == RangeRequest(stable_index_name.tablet_index_name,
                                stable_index_name.index_name,
                                interval, order, max_rows)
    IN RangeOutcome(virtual_index_range(request, fail), <<>>, <<request>>)

\* A Missing arm that reports the index as an error.
range_missing_IsError == RangeOutcome(Err("IndexNotFound"), <<>>, <<>>)

\* The Missing arm: an empty page and the end cursor.
range_missing == RangeOutcome(EmptyPage, <<>>, <<>>)

\* The Physical arm: the tablet is named, the request goes to the index
\* store, and the documents of the page are turned into developer documents.
range_physical(tm, dcs, stable_index_name, interval, order, max_rows, fail) ==
    LET tablet_index_name == stable_index_name.tablet_index_name
        index_name == tablet_to_name(tm, tablet_index_name)
    IN IF ~index_name.ok THEN RangeOutcome(Err(index_name.err), <<>>, <<>>)
       ELSE LET request == RangeRequest(tablet_index_name, index_name.name,
                                        interval, order, max_rows)
                r == index_store_range(dcs, request, fail)
            IN IF r.kind = "Err" THEN RangeOutcome(r, <<request>>, <<>>)
               ELSE RangeOutcome(
                      [kind |-> "Ok",
                       page |-> [i \in 1..Len(r.page) |->
                                   <<r.page[i][1], to_developer(r.page[i][2]),
                                     r.page[i][3]>>],
                       cursor |-> r.cursor],
                      <<request>>, <<>>)

\* index_range past the empty-interval return: the clamp and the three arms.
range_dispatch(tm, dcs, stable_index_name, interval, order, max_rows, fail) ==
    LET clamped == clamp(max_rows)
    IN CASE stable_index_name.kind = "Virtual" ->
              range_virtual(stable_index_name, interval, order, clamped, fail)
         [] stable_index_name.kind = "Missing" -> range_missing
         [] OTHER ->
              range_physical(tm, dcs, stable_index_name, interval, order,
                             clamped, fail)

\* An index_range without the empty-interval return.
index_range_NoEmptyShortcut(tm, dcs, stable_index_name, interval, order, max_rows, fail) ==
    range_dispatch(tm, dcs, stable_index_name, interval, order, max_rows, fail)

\* UserFacingModel::index_range(stable_index_name, interval, order, max_rows)
index_range(tm, dcs, stable_index_name, interval, order, max_rows, fail) ==
    IF interval_is_empty(interval) THEN RangeOutcome(EmptyPage, <<>>, <<>>)
    ELSE range_dispatch(tm, dcs, stable_index_name, interval, order, max_rows,
                        fail)

IndexRange ==
    /\ uf_result.op = "idle"
    /\ \E stable_index_name \in StableIndexNames, interval \in Intervals,
          order \in Orders, max_rows \in 0..MaxRowsAsked, fail \in BOOLEAN :
        uf_result' = [op |-> "index_range",
                      stable_index_name |-> stable_index_name,
                      interval |-> interval, order |-> order,
                      max_rows |-> max_rows, fail |-> fail,
                      out |-> index_range(table_mapping, docs,
                                          stable_index_name, interval, order,
                                          max_rows, fail)]
    /\ UNCHANGED <<comp_vars, tx_vars, database>>

\* A new transaction over a database whose user tables hold some documents.
InitRange ==
    /\ components = <<>>
    /\ definitions = <<>>
    /\ comp_result = [op |-> "new"]
    /\ identity = "user"
    /\ falling_behind = FALSE
    /\ table_mapping \in {InitialTables, InitialTables \cup {MsgsTable}}
    /\ \E present \in SUBSET (1..MaxIndexKey) :
        docs = [rid \in DOMAIN InitialDocs
                        \cup {ResolvedId(TabletOf(FilesTable), i) : i \in present}
                |-> [size |-> 1, creation_time |-> 1, ts |-> "Committed"]]
    /\ next_id = MaxIndexKey + 1
    /\ next_creation_time = FirstGeneratedId
    /\ reads = 0
    /\ uf_result = [op |-> "idle"]
    /\ backend_state = "Running"
    /\ database = Database(table_mapping, docs, backend_state)

NextRange ==
    \/ IndexRange
    \/ Continue

SpecRange == InitRange /\ [][NextRange]_vars

(***************************************************************************)
(* ValidatedPathAndArgs::new and ValidatedHttpPath::new                    *)
(*   (crates/isolate/src/environment/helpers/validation.rs)                *)
(***************************************************************************)

\* FUNCTION_MAX_ARGS_SIZE and DEPRECATION_THRESHOLD.npm.unsupported, scaled
\* down.
FUNCTION_MAX_ARGS_SIZE == 2
UnsupportedVersion == 1

\* The npm versions a deployment was pushed with: 1..MaxVersion.
MaxVersion == 2

BackendStates == {"Running", "Paused", "Disabled"}
UdfTypes == {"Query", "Mutation"}
AllowedVisibilities == {"All", "PublicOnly"}

\* CanonicalizedComponentFunctionPath: a component and a udf path; the udf
\* path "_s" is a system one, "http" is the function of the module http.js.
FunctionPath(component, udf_path) ==
    [component |-> component, udf_path |-> udf_path]
FunctionPaths ==
    {FunctionPath(c, u) : c \in {"Root", "Child"}, u \in {"f", "_s", "http"}}
udf_path_is_system(path) == path.udf_path = "_s"
component_is_root(path) == path.component = "Root"

\* ConvexArray: the arguments, by their size and their shape.
ArgsValues ==
    {[size |-> n, shape |-> sh] :
        n \in 1..(FUNCTION_MAX_ARGS_SIZE + 1), sh \in {"a", "b"}}

\* AnalyzedFunction: visibility, udf type and args validator.
AnalyzedFunction(visibility, udf_type, validator) ==
    [visibility |-> visibility, udf_type |-> udf_type, args |-> validator]

JsError(message) == [kind |-> "JsError", message |-> message]
Validated(path, args, npm_version) ==
    [kind |-> "Ok",
     value |-> [path |-> path, args |-> args, npm_version |-> npm_version]]

\* ModuleModel::get_analyzed_function: the analyzed function of the path.
get_analyzed_function(db, path) ==
    IF path \in DOMAIN db.functions THEN [ok |-> TRUE, val |-> db.functions[path]]
    ELSE [ok |-> FALSE]

\* path.as_root_udf_path(): fails outside the root component.
as_root_udf_path(path) ==
    IF component_is_root(path) THEN [ok |-> TRUE, val |-> path.udf_path]
    ELSE [ok |-> FALSE, err |-> "NotRootComponent"]

\* missing_or_internal_error(path): the message names the path alone.
missing_or_internal_error(path) ==
    LET p == as_root_udf_path(path)
    IN IF p.ok THEN JsError(<<"CouldNotFindPublicFunction", p.val>>)
       ELSE Err(p.err)

\* udf_version(path, tx)
udf_version(db, path) ==
    LET udf_config == db.udf_config
    IN IF udf_config.some /\ udf_config.val > UnsupportedVersion
       THEN [kind |-> "Ok", value |-> udf_config.val]
       ELSE IF ~udf_config.some /\ ~get_analyzed_function(db, path).ok
            THEN missing_or_internal_error(path)
            ELSE JsError(<<"UnsupportedVersion">>)

\* Validator::check_args: a validator other than "any" admits one shape.
check_args(validator, args) ==
    IF validator = "any" \/ validator = args.shape THEN None
    ELSE Some(<<"ArgumentValidationError", validator>>)

\* The identities the visibility match lets through unchecked:
\* Identity::InstanceAdmin and Identity::ActingUser.
is_instance_admin_or_acting_user(ident) == ident = "admin"

\* The system-path arm of ValidatedPathAndArgs::new: nothing but the
\* identity is validated, and no npm version is set.
validate_system_path(ident, path, args) ==
    IF ~component_is_root(path)
    THEN Err("System module inside non-root component?")
    ELSE IF is_privileged(ident) THEN Validated(path, args, None)
    ELSE JsError(<<"Unauthorized", "Executing function">>)

\* A gate that lets every backend state through.
backend_state_gate_AlwaysOpen(bs) == None

\* The match on the backend state: the error returned unless it is Running.
backend_state_gate(bs) ==
    CASE bs = "Running" -> None
      [] bs = "Paused" -> Some(JsError(<<"PAUSED_ERROR_MESSAGE">>))
      [] bs = "Disabled" -> Some(JsError(<<"DISABLED_ERROR_MESSAGE">>))

\* The match on the identity and the visibility: the early return, if any.
visibility_check(ident, allowed_visibility, analyzed_function, path) ==
    IF is_instance_admin_or_acting_user(ident) THEN None
    ELSE IF allowed_visibility = "All" THEN None
    ELSE CASE analyzed_function.visibility = "Public" -> None
           [] analyzed_function.visibility = "Internal" ->
                Some(missing_or_internal_error(path))
           [] OTHER -> Some(Err("No visibility found for analyzed function"))

\* The udf-type check: the early return, if any.
udf_type_check(expected_udf_type, analyzed_function, path) ==
    IF expected_udf_type = analyzed_function.udf_type THEN None
    ELSE IF ~component_is_root(path) THEN Some(Err("NotRootComponent"))
    ELSE Some(JsError(<<"WrongUdfType", expected_udf_type,
                        analyzed_function.udf_type>>))

\* An args-size check that lets every size through.
args_size_check_Skipped(args, path) == None

\* The args-size check: the early return, if any.
args_size_check(args, path) ==
    IF args.size > FUNCTION_MAX_ARGS_SIZE
    THEN IF as_root_udf_path(path).ok
         THEN Some(JsError(<<"ArgumentsTooLarge", args.size>>))
         ELSE Some(Err(as_root_udf_path(path).err))
    ELSE None

\* The args validator: the early return, if any.
args_validator_check(analyzed_function, args) ==
    LET error == check_args(analyzed_function.args, args)
    IN IF error.some THEN Some(JsError(error.val)) ELSE None

\* ValidatedPathAndArgs::new past the lookup of the analyzed function.
validate_analyzed(ident, allowed_visibility, analyzed_function, path, args, expected_udf_type, npm_version) ==
    LET v == visibility_check(ident, allowed_visibility, analyzed_function, path)
        t == udf_type_check(expected_udf_type, analyzed_function, path)
        z == args_size_check(args, path)
        a == args_validator_check(analyzed_function, args)
    IN IF v.some THEN v.val
       ELSE IF t.some THEN t.val
       ELSE IF z.some THEN z.val
       ELSE IF a.some THEN a.val
       ELSE Validated(path, args, Some(npm_version))

\* A validation that reads the backend state before it looks at the kind
\* of the path.
ValidatedPathAndArgs_new_GateFirst(ident, bs, db, allowed_visibility, path, args, expected_udf_type) ==
    LET gate == backend_state_gate(bs)
        version == udf_version(db, path)
        analyzed == get_analyzed_function(db, path)
    IN IF gate.some THEN gate.val
       ELSE IF udf_path_is_system(path)
            THEN validate_system_path(ident, path, args)
       ELSE IF version.kind # "Ok" THEN version
       ELSE IF ~analyzed.ok THEN missing_or_internal_error(path)
       ELSE validate_analyzed(ident, allowed_visibility, analyzed.val,
                              path, args, expected_udf_type, version.value)

\* ValidatedPathAndArgs::new(allowed_visibility, tx, path, args,
\* expected_udf_type), on a transaction of identity ident that sees the
\* backend state bs and the deployment of db.
ValidatedPathAndArgs_new(ident, bs, db, allowed_visibility, path, args, expected_udf_type) ==
    IF udf_path_is_system(path) THEN validate_system_path(ident, path, args)
    ELSE LET gate == backend_state_gate(bs)
             version == udf_version(db, path)
             analyzed == get_analyzed_function(db, path)
         IN IF gate.some THEN gate.val
            ELSE IF version.kind # "Ok" THEN version
            ELSE IF ~analyzed.ok THEN missing_or_internal_error(path)
            ELSE validate_analyzed(ident, allowed_visibility, analyzed.val,
                                   path, args, expected_udf_type,
                                   version.value)

\* BackendStateModel::fail_while_paused_or_disabled
fail_while_paused_or_disabled(bs) ==
    IF bs = "Running" THEN None ELSE Some(Err("BackendIsNotRunning"))

\* ValidatedHttpPath::new(tx, path)
ValidatedHttpPath_new(bs, db, path) ==
    IF path.udf_path # "http" THEN Err("Unexpected http udf path")
    ELSE LET gate == IF ~udf_path_is_system(path)
                     THEN fail_while_paused_or_disabled(bs) ELSE None
             version == udf_version(db, path)
         IN IF gate.some THEN gate.val
            ELSE IF version.kind # "Ok" THEN version
            ELSE [kind |-> "Ok",
                  value |-> [path |-> path, npm_version |-> Some(version.value)]]

\* The analyzed functions of a deployment: the function "f" of the root
\* component (any visibility, with or without an args validator), the
\* function "f" of a child component and the http action may each be there.
Deployments ==
    LET root_f == FunctionPath("Root", "f")
        child_f == FunctionPath("Child", "f")
        root_http == FunctionPath("Root", "http")
        analyzed_f == {AnalyzedFunction(v, "Query", a) :
                          v \in {"Public", "Internal", "None"},
                          a \in {"any", "a"}}
    IN {[path \in present |->
            IF path = root_f THEN af
            ELSE IF path = child_f THEN AnalyzedFunction("Public", "Query", "any")
            ELSE AnalyzedFunction("Public", "HttpAction", "any")] :
          present \in SUBSET {root_f, child_f, root_http}, af \in analyzed_f}

UdfConfigs == {None} \cup {Some(v) : v \in 1..MaxVersion}

ValidateRequest ==
    /\ uf_result.op = "idle"
    /\ \E allowed_visibility \in AllowedVisibilities, path \in FunctionPaths,
          args \in ArgsValues, expected_udf_type \in UdfTypes :
        uf_result' = [op |-> "validate",
                      allowed_visibility |-> allowed_visibility,
                      path |-> path, args |-> args,
                      expected_udf_type |-> expected_udf_type,
                      result |-> ValidatedPathAndArgs_new(
                                    identity, backend_state, database,
                                    allowed_visibility, path, args,
                                    expected_udf_type)]
    /\ UNCHANGED <<comp_vars, tx_vars, database>>

ValidateHttp ==
    /\ uf_result.op = "idle"
    /\ \E path \in FunctionPaths :
        uf_result' = [op |-> "validate_http", path |-> path,
                      result |-> ValidatedHttpPath_new(backend_state, database,
                                                       path)]
    /\ UNCHANGED <<comp_vars, tx_vars, database>>

\* BackendStateModel::toggle_backend_state: the transaction writes the new
\* backend state.
ToggleBackendState ==
    /\ uf_result.op = "idle"
    /\ \E new_state \in BackendStates \ {backend_state} :
        /\ backend_state' = new_state
        /\ uf_result' = [op |-> "toggle", from |-> backend_state,
                         to |-> new_state]
    /\ UNCHANGED <<comp_vars, database, identity, falling_behind,
                   table_mapping, docs, next_id, next_creation_time, reads>>

\* A running backend with any deployment pushed to it, and a transaction of
\* any identity.
InitValid ==
    /\ components = <<>>
    /\ definitions = <<>>
    /\ comp_result = [op |-> "new"]
    /\ identity \in Identities
    /\ falling_behind = FALSE
    /\ table_mapping = InitialTables
    /\ docs = InitialDocs
    /\ next_id = FirstGeneratedId
    /\ next_creation_time = FirstGeneratedId
    /\ reads = 0
    /\ uf_result = [op |-> "idle"]
    /\ backend_state = "Running"
    /\ \E udf_config \in UdfConfigs, functions \in Deployments :
        database = [Database(table_mapping, docs, backend_state)
                       EXCEPT !.udf_config = udf_config,
                              !.functions = functions]

NextValid ==
    \/ ValidateRequest
    \/ ValidateHttp
    \/ ToggleBackendState
    \/ Commit
    \/ Abandon
    \/ Continue

SpecValid == InitValid /\ [][NextValid]_vars

(***************************************************************************)
(* ValidatedPathAndArgs over the wire: pb::common::ValidatedPathAndArgs    *)
(*   (validation.rs, from_proto and the TryFrom impl)                      *)
(***************************************************************************)

\* The struct ValidatedPathAndArgs { path, args, npm_version }.
ValidatedPathAndArgs(path, args, npm_version) ==
    [path |-> path, args |-> args, npm_version |-> npm_version]

\* The wire forms of the three fields. A udf path and a version are sent as
\* strings, the arguments as the bytes of their JSON; each parser undoes its
\* printer and rejects anything else.
udf_path_to_string(udf_path) == [string |-> <<"udf_path", udf_path>>]
udf_path_parse(s) ==
    IF s.string[1] = "udf_path" THEN [ok |-> TRUE, val |-> s.string[2]]
    ELSE [ok |-> FALSE, err |-> "InvalidUdfPath"]

version_to_string(v) == [string |-> <<"version", v>>]
version_parse(s) ==
    IF s.string[1] = "version" THEN [ok |-> TRUE, val |-> s.string[2]]
    ELSE [ok |-> FALSE, err |-> "InvalidVersion"]

args_to_vec(args) == [bytes |-> <<"array", args.size, args.shape>>]
args_from_slice(b) ==
    IF b.bytes[1] = "array"
    THEN [ok |-> TRUE, val |-> [size |-> b.bytes[2], shape |-> b.bytes[3]]]
    ELSE [ok |-> FALSE, err |-> "NotAnArray"]

\* pb::common::ValidatedPathAndArgs: three optional fields.
ProtoValidatedPathAndArgs(path, args, npm_version) ==
    [path |-> path, args |-> args, npm_version |-> npm_version]

\* A conversion that sends no npm version.
try_from_DropsVersion(v) ==
    IF ~component_is_root(v.path) THEN Err("Condition failed: path.component.is_root()")
    ELSE [kind |-> "Ok",
          value |-> ProtoValidatedPathAndArgs(
                        Some(udf_path_to_string(v.path.udf_path)),
                        Some(args_to_vec(v.args)), None)]

\* TryFrom<ValidatedPathAndArgs> for pb::common::ValidatedPathAndArgs: the
\* message has no field for the component, and the conversion is refused
\* outside the root component.
try_from(v) ==
    IF ~component_is_root(v.path) THEN Err("Condition failed: path.component.is_root()")
    ELSE [kind |-> "Ok",
          value |-> ProtoValidatedPathAndArgs(
                        Some(udf_path_to_string(v.path.udf_path)),
                        Some(args_to_vec(v.args)),
                        IF v.npm_version.some
                        THEN Some(version_to_string(v.npm_version.val))
                        ELSE None)]

\* ValidatedPathAndArgs::from_proto: the arguments are parsed first, then
\* the path, which is placed in the root component, then the version.
from_proto(proto) ==
    IF ~proto.args.some THEN Err("Missing args")
    ELSE LET args == args_from_slice(proto.args.val)
         IN IF ~args.ok THEN Err(args.err)
            ELSE IF ~proto.path.some THEN Err("Missing udf_path")
            ELSE LET udf_path == udf_path_parse(proto.path.val)
                     npm_version ==
                         IF proto.npm_version.some
                         THEN version_parse(proto.npm_version.val)
                         ELSE [ok |-> TRUE]
                 IN IF ~udf_path.ok THEN Err(udf_path.err)
                    ELSE IF ~npm_version.ok THEN Err(npm_version.err)
                    ELSE [kind |-> "Ok",
                          value |-> ValidatedPathAndArgs(
                              FunctionPath("Root", udf_path.val), args.val,
                              IF proto.npm_version.some
                              THEN Some(npm_version.val) ELSE None)]

\* The messages a peer may send: those try_from builds, with any of the
\* fields left out.
ProtoMessages ==
    {ProtoValidatedPathAndArgs(p, a, n) :
        p \in {None} \cup {Some(udf_path_to_string(u)) : u \in {"f", "_s", "http"}},
        a \in {None} \cup {Some(args_to_vec(x)) : x \in ArgsValues},
        n \in {None} \cup {Some(version_to_string(x)) : x \in 1..MaxVersion}}

\* ValidatedPathAndArgs::new_for_tests(path, args, npm_version): any value
\* of the struct.
NewForTests ==
    /\ uf_result.op = "idle"
    /\ \E path \in FunctionPaths, args \in ArgsValues,
          npm_version \in UdfConfigs :
        uf_result' = [op |-> "new_for_tests",
                      result |-> Validated(path, args, npm_version)]
    /\ UNCHANGED <<comp_vars, tx_vars, database>>

\* pb::common::ValidatedPathAndArgs::try_from(v) of the value a constructor
\* has just returned.
TryFromValidated ==
    /\ uf_result.op \in {"validate", "new_for_tests"}
    /\ uf_result.result.kind = "Ok"
    /\ uf_result' = [op |-> "try_from", v |-> uf_result.result.value,
                     made_by |-> uf_result.op,
                     result |-> try_from(uf_result.result.value)]
    /\ UNCHANGED <<comp_vars, tx_vars, database>>

\* ValidatedPathAndArgs::from_proto of the message try_from has built.
FromProto ==
    /\ uf_result.op = "try_from"
    /\ uf_result.result.kind = "Ok"
    /\ uf_result' = [op |-> "from_proto", v |-> uf_result.v,
                     made_by |-> uf_result.made_by,
                     proto |-> uf_result.result.value,
                     result |-> from_proto(uf_result.result.value)]
    /\ UNCHANGED <<comp_vars, tx_vars, database>>

\* ValidatedPathAndArgs::from_proto of a message received from a peer.
ReceiveProto ==
    /\ uf_result.op = "idle"
    /\ \E proto \in ProtoMessages :
        uf_result' = [op |-> "receive_proto", proto |-> proto,
                      result |-> from_proto(proto)]
    /\ UNCHANGED <<comp_vars, tx_vars, database>>

NextProto ==
    \/ ValidateRequest
    \/ NewForTests
    \/ TryFromValidated
    \/ FromProto
    \/ ReceiveProto
    \/ Continue

SpecProto == InitValid /\ [][NextProto]_vars

(***************************************************************************)
(* Component tree resolver: claims C1 - C3.                                *)
(***************************************************************************)

RootDocs == {i \in DOMAIN components : components[i].kind = "App"}
ChildDocs == {i \in DOMAIN components : components[i].kind = "ChildComponent"}

RECURSIVE DepthOf(_)
DepthOf(i) ==
    IF components[i].kind = "App" THEN 0 ELSE 1 + DepthOf(components[i].parent)

\* C1: round trip. For every live component c of a tree built by inserting
\* components under existing parents, get_component_path(c) succeeds and
\* resolve_path of that path returns exactly c; for ComponentId::Root the
\* path is empty and resolves to the root document.
C1_RoundTrip ==
    /\ \A i \in DOMAIN components :
        LET p == get_component_path(components, ChildId(i))
        IN /\ p.ok
           /\ resolve_path(components, p.path) = Some(i)
    /\ LET p == get_component_path(components, RootId)
       IN /\ p.ok
          /\ resolve_path(components, p.path) = root_component(components)

\* A resolve_path call returned a component two levels below the root whose
\* two path segments differ, and get_component_path gives that path back.
C1_Witness ==
    /\ comp_result.op = "resolve_path"
    /\ Len(comp_result.path) = 2
    /\ comp_result.path[1] # comp_result.path[2]
    /\ comp_result.result.some
    /\ get_component_path(components, ChildId(comp_result.result.val))
         = [ok |-> TRUE, path |-> comp_result.path]

\* C2: for every (parent, name) at most one component is selected by
\* component_in_parent(parent, name), the lookup returns that component, and
\* an insert of a second component with the same (parent, name) is rejected
\* by the index and leaves the table without a duplicate.
C2_UniqueInParent ==
    /\ \A p \in InternalIds, n \in ComponentNames :
        /\ Cardinality(IndexMatches(components, p, n, TRUE)) <= 1
        /\ \A i \in IndexMatches(components, p, n, TRUE) :
             component_in_parent(components, Some(<<p, n>>)) = Some(i)
    /\ comp_result.op = "insert" =>
        LET key == IndexKey(comp_result.meta)
            same == {i \in DOMAIN components : IndexKey(components[i]) = key}
        IN IF comp_result.result.ok
           THEN same = {comp_result.result.id}
           ELSE /\ comp_result.result.err = "IndexRejected"
                /\ Cardinality(same) = 1

\* An insert of a child with the (parent, name) of a live sibling was rejected.
C2_Witness ==
    /\ comp_result.op = "insert"
    /\ comp_result.meta.kind = "ChildComponent"
    /\ ~comp_result.result.ok
    /\ Cardinality(ChildDocs) >= 2

\* C3 as stated: in every reachable state exactly one Root component exists,
\* root_component() returns it, and every non-root component has exactly one
\* parent.
C3_ExactlyOneRoot ==
    /\ Cardinality(RootDocs) = 1
    /\ \A r \in RootDocs : root_component(components) = Some(r)
    /\ \A i \in ChildDocs : components[i].parent \in DOMAIN components \ {i}

\* C3 amended: at most one Root component exists (none until the App
\* component has been inserted); root_component() returns it when it exists
\* and none otherwise; no child exists without a root; every non-root
\* component has exactly one parent, a live component other than itself.
C3_AtMostOneRoot ==
    /\ Cardinality(RootDocs) <= 1
    /\ \A r \in RootDocs : root_component(components) = Some(r)
    /\ RootDocs = {} => /\ root_component(components) = None
                        /\ components = <<>>
    /\ definitions = <<>>
    /\ \A i \in ChildDocs : components[i].parent \in DOMAIN components \ {i}

\* root_component() returned the root of a tree that also holds children at
\* two levels.
C3_Witness ==
    /\ comp_result.op = "root_component"
    /\ comp_result.result.some
    /\ comp_result.result.val \in RootDocs
    /\ \E i \in ChildDocs : DepthOf(i) = 2

(***************************************************************************)
(* get_batch: claims C4 - C6.                                              *)
(***************************************************************************)

IsGetBatch == uf_result.op = "get_batch"

\* The batch that requests key k alone, and the batch without key k.
OnlyKey(ids, k) == [x \in {k} |-> ids[k]]
WithoutKey(ids, k) == [x \in DOMAIN ids \ {k} |-> ids[x]]

\* What the last get_batch call would have returned for `ids` from the
\* transaction state it started in.
Rerun(ids) ==
    get_batch(table_mapping, docs, uf_result.pre_reads, ids, uf_result.bad)

ReadLimitErr == Err("TooManyBytesRead")

\* C4: get_batch over N batch keys returns (it does not panic) a mapping
\* with exactly N entries, one per input key and no others, whatever the mix
\* of virtual, physical, nonexistent-table and failing entries.
C4_OneResultPerKey ==
    IsGetBatch =>
        /\ ~uf_result.out.panic
        /\ DOMAIN uf_result.out.results = DOMAIN uf_result.ids
        /\ Cardinality(DOMAIN uf_result.out.results)
             = Cardinality(DOMAIN uf_result.ids)

\* A two-key batch returned: one entry of a table number that does not
\* exist resolved to not found, the other entry failed.
C4_Witness ==
    /\ IsGetBatch
    /\ DOMAIN uf_result.ids = {0, 1}
    /\ ~table_number_exists(table_mapping, uf_result.ids[0].table)
    /\ ~virtual_number_exists(uf_result.ids[0].table)
    /\ uf_result.out.results[0] = OkNone
    /\ uf_result.out.results[1].kind = "Err"

\* The reads each single request records, summed over the keys.
RECURSIVE SumSingleReads(_, _)
SumSingleReads(ids, keys) ==
    IF keys = {} THEN 0
    ELSE LET k == Min(keys)
         IN (Rerun(OnlyKey(ids, k)).reads - uf_result.pre_reads)
            + SumSingleReads(ids, keys \ {k})

IsInsert == uf_result.op = "insert"
IsMutation == uf_result.op \in {"patch", "replace", "delete"}
Failed == uf_result.result.kind = "Err"
FailedWith(e) == uf_result.result = Err(e)

TableOfDoc(rid) == rid.tablet[2]
DocsOfTable(table) == {rid \in DOMAIN docs : TableOfDoc(rid) = table}

\* A step in which insert returned an error.
FailedInsertStep ==
    /\ uf_result.op = "idle"
    /\ uf_result'.op = "insert"
    /\ uf_result'.result.kind = "Err"

\* C7: insert writes the table metadata before the document. In every state
\* of the transaction, also after a failed insert, every document belongs to
\* a table that has its metadata record; a failed insert writes no document,
\* and the only record it can leave behind is that of its own table.
C7_TableBeforeDocument ==
    /\ [](\A rid \in DOMAIN docs : TableOfDoc(rid) \in table_mapping)
    /\ [][FailedInsertStep =>
            /\ docs' = docs
            /\ \/ table_mapping' = table_mapping
               \/ table_mapping' = table_mapping \cup {uf_result'.table}]_vars

\* An insert failed in the document store after it had created the table
\* "m": the table record is there, and no document is in the table.
C7_Witness ==
    /\ IsInsert
    /\ FailedWith("InsertDocumentFailed")
    /\ uf_result.table = MsgsTable
    /\ MsgsTable \in table_mapping
    /\ DocsOfTable(MsgsTable) = {}

\* The document named by the last patch, replace or delete was there when the
\* call was made (a failed call on a system table changes no document).
TargetExisted ==
    \/ uf_result.result.kind = "Ok"
    \/ /\ inject_table_id(table_mapping, uf_result.id).ok
       /\ inject_table_id(table_mapping, uf_result.id).id \in DOMAIN docs

\* C8: patch, replace and delete of a document of a system table fail with
\* the authorization error when the identity is neither admin nor system.
\* For an admin or system identity they are never refused authorization, and
\* they succeed (the document being there and retention not falling behind).
C8_SystemTableAuthorization ==
    (IsMutation /\ is_system(table_mapping, uf_result.id.table)) =>
        /\ ~is_privileged(identity) =>
             /\ FailedWith("Unauthorized")
             /\ ErrorClass(uf_result.result.err) = "Forbidden"
        /\ is_privileged(identity) =>
             /\ ~FailedWith("Unauthorized")
             /\ (TargetExisted /\ ~falling_behind) => uf_result.result.kind = "Ok"

\* An admin deleted the document of the system table, and the call succeeded.
C8_Witness ==
    /\ uf_result.op = "delete"
    /\ identity = "admin"
    /\ uf_result.id = DeveloperId(TableNumber(SysTable), 1)
    /\ uf_result.result.kind = "Ok"
    /\ DocsOfTable(SysTable) = {}

\* C9: an insert of a document larger than the user size ceiling fails with a
\* bad-request error. An insert of a document at or under the ceiling is not
\* refused for its size, and it succeeds (the table being a user table,
\* retention not falling behind and the store accepting the writes).
C9_InsertSizeCeiling ==
    IsInsert =>
        /\ uf_result.size > UserSizeCeiling =>
             /\ Failed
             /\ ErrorClass(uf_result.result.err) = "BadRequest"
             /\ ~is_virtual_table(uf_result.table) =>
                    FailedWith("ValueTooLargeError")
        /\ uf_result.size <= UserSizeCeiling =>
             /\ ~FailedWith("ValueTooLargeError")
             /\ ( /\ ~is_virtual_table(uf_result.table)
                  /\ ~is_system_name(uf_result.table)
                  /\ ~falling_behind
                  /\ uf_result.fail = "none" ) =>
                    /\ uf_result.result.kind = "Ok"
                    /\ \E rid \in DocsOfTable(uf_result.table) :
                         /\ developer_id(rid) = uf_result.result.id
                         /\ docs[rid].size = uf_result.size

\* An insert of a document exactly at the ceiling succeeded.
C9_Witness ==
    /\ IsInsert
    /\ uf_result.size = UserSizeCeiling
    /\ uf_result.result.kind = "Ok"
    /\ \E rid \in DOMAIN docs : docs[rid].size = UserSizeCeiling

\* A step in which insert was called on a virtual table or on a table whose
\* name starts with '_'.
ReservedInsertStep ==
    /\ uf_result.op = "idle"
    /\ uf_result'.op = "insert"
    /\ is_virtual_table(uf_result'.table) \/ is_system_name(uf_result'.table)

\* C10: an insert into a virtual table fails with the read-only error; an
\* insert into a table whose name begins with '_' always fails, with the
\* invalid-name error when the table is not virtual (the document being
\* within the size ceiling and retention not falling behind). In neither
\* case is a document or a table-metadata record written.
C10_ReservedTablesRejected ==
    /\ [](IsInsert =>
            /\ is_virtual_table(uf_result.table) =>
                 /\ FailedWith("ReadOnlyTable")
                 /\ ErrorClass(uf_result.result.err) = "BadRequest"
            /\ is_system_name(uf_result.table) =>
                 /\ Failed
                 /\ ( /\ ~is_virtual_table(uf_result.table)
                      /\ uf_result.size <= UserSizeCeiling
                      /\ ~falling_behind ) =>
                        /\ FailedWith("InvalidTableName")
                        /\ ErrorClass(uf_result.result.err) = "BadRequest")
    /\ [][ReservedInsertStep =>
            /\ docs' = docs
            /\ table_mapping' = table_mapping]_vars

\* An insert into the table "_n" was refused with the invalid-name error
\* and the table was not created.
C10_Witness ==
    /\ IsInsert
    /\ uf_result.table = NewSysTable
    /\ FailedWith("InvalidTableName")
    /\ NewSysTable \notin table_mapping

(***************************************************************************)
(* Deletion and backpressure: claims C11 - C12.                            *)
(***************************************************************************)

\* The resolved form of a developer id (the tablet of its table).
ResolvedOf(id) == ResolvedId(TabletOf(NameOfNumber(id.table)), id.internal_id)

\* An id the generator has passed whose document is not in the transaction:
\* every id deleted so far is one of these.
Absent(id) ==
    /\ id.internal_id < next_id
    /\ ResolvedOf(id) \notin DOMAIN docs

\* A step in which delete was called with an absent id.
DeleteOfAbsentStep ==
    /\ uf_result.op = "idle"
    /\ uf_result'.op = "delete"
    /\ Absent(uf_result'.id)

\* A step in which get was called with an absent id.
GetOfAbsentStep ==
    /\ uf_result.op = "idle"
    /\ uf_result'.op = "get"
    /\ Absent(uf_result'.id)

\* C11: a deleted document is gone. After a successful delete the document
\* is absent; no operation brings an absent id back (a document that appears
\* has an id the generator had not passed); a delete of an absent id fails,
\* with a not-found error when the caller is authorized and retention is
\* not falling behind; a get of an absent id returns no document when the
\* store answers.
C11_DeletedIsGone ==
    /\ []((uf_result.op = "delete" /\ uf_result.result.kind = "Ok") =>
            Absent(uf_result.id))
    /\ [][\A rid \in DOMAIN docs' \ DOMAIN docs :
             rid.internal_id >= next_id]_vars
    /\ [][DeleteOfAbsentStep =>
            /\ uf_result'.result.kind = "Err"
            /\ (is_authorized(CurrentTx, uf_result'.id) /\ ~falling_behind) =>
                  /\ ErrorClass(uf_result'.result.err) = "NotFound"
                  /\ NameOfNumber(uf_result'.id.table) \in table_mapping =>
                        uf_result'.result = Err("DocumentNotFound")
            /\ docs' = docs]_vars
    /\ [][GetOfAbsentStep =>
            /\ uf_result'.bad = {} => uf_result'.result = OkNone
            /\ ~(uf_result'.result.kind = "Ok" /\ uf_result'.result.found)]_vars

\* The document of the system table, present when the transaction started,
\* was deleted, and a second delete of the same id failed with not-found.
C11_Witness ==
    /\ uf_result.op = "delete"
    /\ uf_result.id = DeveloperId(TableNumber(SysTable), 1)
    /\ FailedWith("DocumentNotFound")
    /\ ResolvedOf(uf_result.id) \in DOMAIN InitialDocs
    /\ Absent(uf_result.id)

\* A step in which insert, patch, replace or delete was called while the
\* retention validator reported that it falls behind.
WriteWhileBehindStep ==
    /\ uf_result.op = "idle"
    /\ uf_result'.op \in {"insert", "patch", "replace", "delete"}
    /\ falling_behind

\* The checks that insert, patch, replace and delete make before they reach
\* fail_if_falling_behind all passed for the call recorded in r.
PassedEarlierChecks(r) ==
    CASE r.op = "insert" ->
            ~is_virtual_table(r.table) /\ check_user_size(r.size)
      [] r.op = "replace" ->
            /\ is_authorized(CurrentTx, r.id)
            /\ is_system(table_mapping, r.id.table) \/ check_user_size(r.size)
      [] OTHER -> is_authorized(CurrentTx, r.id)

\* C12: while the retention validator reports falling behind, insert, patch,
\* replace and delete all fail and leave the transaction as it was: no table
\* record, no document written, changed or removed, no id or creation time
\* taken. The error is the backpressure error whenever the call passed the
\* checks that come before the retention check (read-only table, size of the
\* inserted or replacing value, authorization).
C12_Backpressure ==
    [][WriteWhileBehindStep =>
         /\ uf_result'.result.kind = "Err"
         /\ UNCHANGED tx_vars
         /\ PassedEarlierChecks(uf_result') =>
               /\ uf_result'.result = Err("RetentionFallingBehind")
               /\ ErrorClass(uf_result'.result.err) = "Overloaded"]_vars

\* A patch of an existing document of a user table, within the size ceiling,
\* was refused with the backpressure error.
C12_Witness ==
    /\ uf_result.op = "patch"
    /\ falling_behind
    /\ FailedWith("RetentionFallingBehind")
    /\ uf_result.size <= UserSizeCeiling
    /\ ~is_system(table_mapping, uf_result.id.table)
    /\ inject_table_id(table_mapping, uf_result.id).ok
    /\ inject_table_id(table_mapping, uf_result.id).id \in DOMAIN docs

(***************************************************************************)
(* index_range: claims C13 - C15.                                          *)
(***************************************************************************)

IsIndexRange == uf_result.op = "index_range"

\* The last index_range made no request of the index store or of the
\* virtual table adapter.
NoRangeAccess ==
    /\ uf_result.out.store_requests = <<>>
    /\ uf_result.out.virtual_requests = <<>>

\* C13: index_range with an empty interval returns an empty page and the
\* end-of-range cursor and makes no request of the index store or of the
\* virtual table adapter, whatever the index name (physical, of a known or
\* an unknown tablet, virtual, missing), the order and max_rows, and also
\* when the store would have failed.
C13_EmptyIntervalShortCircuit ==
    (IsIndexRange /\ interval_is_empty(uf_result.interval)) =>
        /\ uf_result.out.result = EmptyPage
        /\ NoRangeAccess

\* index_range was called with an empty interval on the index of a tablet
\* that is not in the table mapping, while the store was failing.
C13_Witness ==
    /\ IsIndexRange
    /\ interval_is_empty(uf_result.interval)
    /\ uf_result.stable_index_name = Physical(TabletOf(MsgsTable))
    /\ MsgsTable \notin table_mapping
    /\ uf_result.fail
    /\ uf_result.out.result = EmptyPage

\* The requests the last index_range made, of the store and of the adapter.
RangeRequests ==
    {uf_result.out.store_requests[i] :
        i \in DOMAIN uf_result.out.store_requests}
    \cup {uf_result.out.virtual_requests[i] :
        i \in DOMAIN uf_result.out.virtual_requests}

\* C14: every request that index_range makes of the index store or of the
\* virtual table adapter carries max_size = min(max_rows, MAX_PAGE_SIZE), and
\* so the page it returns never has more than MAX_PAGE_SIZE rows.
C14_PageSizeClamp ==
    IsIndexRange =>
        /\ \A request \in RangeRequests :
              /\ request.max_size = Min({uf_result.max_rows, MAX_PAGE_SIZE})
              /\ request.max_size <= MAX_PAGE_SIZE
        /\ uf_result.out.result.kind = "Ok" =>
              Len(uf_result.out.result.page) <= MAX_PAGE_SIZE

\* The caller asked for more rows than the maximum over a range holding more
\* documents than the maximum; the store was asked for MAX_PAGE_SIZE rows,
\* the page has that many and the cursor is not at the end.
C14_Witness ==
    /\ IsIndexRange
    /\ uf_result.max_rows > MAX_PAGE_SIZE
    /\ Len(uf_result.out.store_requests) = 1
    /\ uf_result.out.store_requests[1].max_size = MAX_PAGE_SIZE
    /\ uf_result.out.result.kind = "Ok"
    /\ Len(uf_result.out.result.page) = MAX_PAGE_SIZE
    /\ uf_result.out.result.cursor # CursorEnd
    /\ Cardinality(DocsOfTable(FilesTable)) > MAX_PAGE_SIZE

\* C15: index_range over a Missing index name returns an empty page with the
\* end-of-range cursor, no error, and makes no request of the store or of the
\* adapter.
C15_MissingIndexIsEmpty ==
    (IsIndexRange /\ uf_result.stable_index_name = Missing) =>
        /\ uf_result.out.result = EmptyPage
        /\ NoRangeAccess

\* index_range was called on a Missing index name with an interval that is
\* not empty.
C15_Witness ==
    /\ IsIndexRange
    /\ uf_result.stable_index_name = Missing
    /\ ~interval_is_empty(uf_result.interval)
    /\ uf_result.max_rows > 0
    /\ uf_result.out.result = EmptyPage

(***************************************************************************)
(* Size ceiling of patch and replace: claim C16.                           *)
(***************************************************************************)

IsPatchOrReplace == uf_result.op \in {"patch", "replace"}

\* C16: a patch or replace of a document of a user table whose result is
\* over the user size ceiling fails: replace with the size error at once,
\* patch with the size error once the document has been patched (it exists
\* and retention is not falling behind). A result at or under the ceiling
\* is never refused for its size, and a document of a system table never
\* is: a privileged caller patches or replaces it with a larger one.
C16_PatchReplaceSizeCeiling ==
    IsPatchOrReplace =>
        /\ ( /\ ~is_system(table_mapping, uf_result.id.table)
             /\ uf_result.size > UserSizeCeiling ) =>
               /\ Failed
               /\ uf_result.op = "replace" => FailedWith("ValueTooLargeError")
               /\ (TargetExisted /\ ~falling_behind) =>
                     /\ FailedWith("ValueTooLargeError")
                     /\ ErrorClass(uf_result.result.err) = "BadRequest"
        /\ uf_result.size <= UserSizeCeiling =>
               ~FailedWith("ValueTooLargeError")
        /\ is_system(table_mapping, uf_result.id.table) =>
               /\ ~FailedWith("ValueTooLargeError")
               /\ ( /\ is_privileged(identity)
                    /\ TargetExisted
                    /\ ~falling_behind ) =>
                     /\ uf_result.result.kind = "Ok"
                     /\ uf_result.result.doc.size = uf_result.size

\* A patch of an existing document of a user table was refused because the
\* patched document is over the ceiling.
C16_Witness ==
    /\ uf_result.op = "patch"
    /\ ~is_system(table_mapping, uf_result.id.table)
    /\ uf_result.size > UserSizeCeiling
    /\ FailedWith("ValueTooLargeError")
    /\ ~falling_behind

(***************************************************************************)
(* Cancellation: claim C17.                                                *)
(***************************************************************************)

\* C17: nothing a transaction stages is visible after it is abandoned. The
\* database changes only in a commit (insert, patch, replace and delete
\* write to the transaction alone, also the table record of a new table);
\* the database never holds a pending document; and the transaction that
\* follows an abandoned one sees the tables and documents of the database as
\* they were, with no read recorded.
C17_AbandonLeavesNoTrace ==
    /\ [](\A rid \in DOMAIN database.docs :
             database.docs[rid].ts = "Committed")
    /\ [][database' # database => uf_result'.op = "commit"]_vars
    /\ [][(uf_result.op = "idle" /\ uf_result'.op = "abandon") =>
            /\ database' = database
            /\ table_mapping' = database.tables
            /\ docs' = database.docs
            /\ backend_state' = database.backend_state
            /\ reads' = 0]_vars

\* A transaction that had created the table "m" and inserted a document into
\* it was abandoned: the next transaction sees neither.
C17_Witness ==
    /\ uf_result.op = "abandon"
    /\ MsgsTable \in uf_result.staged_tables
    /\ \E rid \in uf_result.staged_docs : TableOfDoc(rid) = MsgsTable
    /\ MsgsTable \notin table_mapping
    /\ DocsOfTable(MsgsTable) = {}
    /\ MsgsTable \notin database.tables

(***************************************************************************)
(* Function validation: claims C18 - C20.                                  *)
(***************************************************************************)

IsValidate == uf_result.op = "validate"
IsValidateHttp == uf_result.op = "validate_http"

\* The errors of a backend that is not running.
IsNotRunningError(r) ==
    \/ /\ r.kind = "JsError"
       /\ r.message[1] \in {"PAUSED_ERROR_MESSAGE", "DISABLED_ERROR_MESSAGE"}
    \/ /\ r.kind = "Err"
       /\ r.err = "BackendIsNotRunning"

\* C18: a request for a function path that is not a system one is admitted
\* only while the backend state is Running. While it is Paused or Disabled,
\* ValidatedPathAndArgs::new returns the paused or the disabled error and
\* ValidatedHttpPath::new fails with the not-running error; while it is
\* Running neither returns such an error. A commit publishes the backend
\* state the transaction wrote, the transactions that follow see it, and it
\* changes in no step other than a toggle or the abandon of one.
C18_BackendStateGate ==
    /\ []((IsValidate /\ ~udf_path_is_system(uf_result.path)) =>
            /\ uf_result.result.kind = "Ok" => backend_state = "Running"
            /\ backend_state = "Paused" =>
                  uf_result.result = JsError(<<"PAUSED_ERROR_MESSAGE">>)
            /\ backend_state = "Disabled" =>
                  uf_result.result = JsError(<<"DISABLED_ERROR_MESSAGE">>)
            /\ backend_state = "Running" =>
                  ~IsNotRunningError(uf_result.result))
    /\ []((IsValidateHttp /\ ~udf_path_is_system(uf_result.path)) =>
            /\ uf_result.result.kind = "Ok" => backend_state = "Running"
            /\ (backend_state # "Running" /\ uf_result.path.udf_path = "http") =>
                  uf_result.result = Err("BackendIsNotRunning")
            /\ backend_state = "Running" =>
                  ~IsNotRunningError(uf_result.result))
    /\ [][(uf_result.op = "idle" /\ uf_result'.op = "commit") =>
            /\ database'.backend_state = backend_state
            /\ backend_state' = backend_state]_vars
    /\ [][backend_state' # backend_state =>
            uf_result'.op \in {"toggle", "abandon"}]_vars

\* After the commit of a toggle to Disabled a request was rejected with the
\* disabled error, and the same request is admitted on a running backend.
C18_Witness ==
    /\ IsValidate
    /\ ~udf_path_is_system(uf_result.path)
    /\ database.backend_state = "Disabled"
    /\ backend_state = "Disabled"
    /\ uf_result.result = JsError(<<"DISABLED_ERROR_MESSAGE">>)
    /\ ValidatedPathAndArgs_new(identity, "Running", database,
                                uf_result.allowed_visibility, uf_result.path,
                                uf_result.args,
                                uf_result.expected_udf_type).kind = "Ok"

\* The database without the analyzed function of a path.
WithoutFunction(db, path) ==
    [db EXCEPT !.functions =
        [q \in DOMAIN db.functions \ {path} |-> db.functions[q]]]

\* The last request was made by a caller that is not an admin and may call
\* public functions only, for a function that exists with Internal
\* visibility.
RestrictedCallOfInternal ==
    /\ IsValidate
    /\ ~is_instance_admin_or_acting_user(identity)
    /\ uf_result.allowed_visibility = "PublicOnly"
    /\ uf_result.path \in DOMAIN database.functions
    /\ database.functions[uf_result.path].visibility = "Internal"

\* What the last request returns in the same deployment state without the
\* function.
ResultWithoutFunction ==
    ValidatedPathAndArgs_new(identity, backend_state,
                             WithoutFunction(database, uf_result.path),
                             uf_result.allowed_visibility, uf_result.path,
                             uf_result.args, uf_result.expected_udf_type)

\* C19: for a caller that is not an admin and is restricted to public
\* functions, ValidatedPathAndArgs::new returns for a function of Internal
\* visibility what it returns, in the same backend state, with the same UDF
\* config and arguments, when the function does not exist.
C19_NoExistenceLeak ==
    RestrictedCallOfInternal => uf_result.result = ResultWithoutFunction

\* A deployment without a UDF config: the request for the Internal function
\* is answered with the unsupported-version error, the request for a function
\* that does not exist with the could-not-find error.
C19_Witness ==
    /\ RestrictedCallOfInternal
    /\ backend_state = "Running"
    /\ ~database.udf_config.some
    /\ uf_result.result = JsError(<<"UnsupportedVersion">>)
    /\ ResultWithoutFunction.kind = "JsError"
    /\ ResultWithoutFunction.message[1] = "CouldNotFindPublicFunction"

\* C19, for the deployments that have a UDF config, of whatever version: the
\* two answers are the same.
C19_NoExistenceLeakWithUdfConfig ==
    (RestrictedCallOfInternal /\ database.udf_config.some) =>
        uf_result.result = ResultWithoutFunction

\* C20: validation is never skipped. Every value ValidatedPathAndArgs::new
\* returns as a success for a path that is not a system one is for an
\* analyzed function that the caller may see (the caller is an admin, or may
\* call all functions, or the function is public), of the expected udf type,
\* with arguments no larger than FUNCTION_MAX_ARGS_SIZE that its args
\* validator admits; it carries the path and the arguments given and the npm
\* version of the deployment's UDF config, a supported one.
C20_ValidationNeverSkipped ==
    (IsValidate /\ ~udf_path_is_system(uf_result.path)
                /\ uf_result.result.kind = "Ok") =>
        /\ uf_result.path \in DOMAIN database.functions
        /\ LET analyzed_function == database.functions[uf_result.path]
           IN /\ \/ is_instance_admin_or_acting_user(identity)
                 \/ uf_result.allowed_visibility = "All"
                 \/ analyzed_function.visibility = "Public"
              /\ uf_result.expected_udf_type = analyzed_function.udf_type
              /\ uf_result.args.size <= FUNCTION_MAX_ARGS_SIZE
              /\ check_args(analyzed_function.args, uf_result.args) = None
        /\ database.udf_config.some
        /\ database.udf_config.val > UnsupportedVersion
        /\ uf_result.result.value =
              [path |-> uf_result.path, args |-> uf_result.args,
               npm_version |-> Some(database.udf_config.val)]

\* A caller restricted to public functions had a request validated for a
\* public function with an args validator, the arguments being exactly at
\* the size limit.
C20_Witness ==
    /\ IsValidate
    /\ identity = "user"
    /\ uf_result.allowed_visibility = "PublicOnly"
    /\ uf_result.result.kind = "Ok"
    /\ uf_result.path \in DOMAIN database.functions
    /\ database.functions[uf_result.path].args = "a"
    /\ uf_result.args.size = FUNCTION_MAX_ARGS_SIZE
    /\ uf_result.result.value.npm_version = Some(MaxVersion)

(***************************************************************************)
(* Protobuf round trip: claim C21.                                         *)
(***************************************************************************)

IsTryFrom == uf_result.op = "try_from"
IsFromProto == uf_result.op = "from_proto"

BatchEvents == uf_result.out.events
EventsOf(ev) == {i \in DOMAIN BatchEvents : BatchEvents[i].ev = ev}
EventsOfKey(ev, k) == {i \in EventsOf(ev) : BatchEvents[i].keys = {k}}

\* The keys of the last batch by the kind of their table number.
VirtualKeys ==
    {k \in DOMAIN uf_result.ids : virtual_number_exists(uf_result.ids[k].table)}
PhysicalKeys ==
    {k \in DOMAIN uf_result.ids \ VirtualKeys :
        table_number_exists(table_mapping, uf_result.ids[k].table)}
MissingTableKeys == DOMAIN uf_result.ids \ (VirtualKeys \cup PhysicalKeys)

\* C22: get_batch runs in three ordered stages. It calls the store's batch
\* fetch exactly once, with exactly the keys of the entries of physical
\* tables; every entry is resolved once, and every entry of a virtual table
\* fetched once, before that call; every fetched entry is materialized once,
\* after that call, and nothing else is.
C22_ThreeOrderedStages ==
    IsGetBatch =>
        /\ Cardinality(EventsOf("get_inner_batch")) = 1
        /\ \A f \in EventsOf("get_inner_batch") :
              /\ BatchEvents[f].keys = PhysicalKeys
              /\ \A i \in EventsOf("resolved") \cup EventsOf("virtual_get") :
                    i < f
              /\ \A i \in EventsOf("materialize") :
                    /\ i > f
                    /\ BatchEvents[i].keys \subseteq PhysicalKeys
        /\ \A k \in DOMAIN uf_result.ids :
              Cardinality(EventsOfKey("resolved", k)) = 1
        /\ \A k \in DOMAIN uf_result.ids :
              Cardinality(EventsOfKey("virtual_get", k))
                 = IF k \in VirtualKeys THEN 1 ELSE 0
        /\ \A k \in DOMAIN uf_result.ids :
              Cardinality(EventsOfKey("materialize", k))
                 = IF k \in PhysicalKeys THEN 1 ELSE 0

\* A batch whose first entry is of a physical table and whose second entry
\* is of the virtual table returned: the physical entry was resolved first
\* and materialized last, after the virtual fetch and the one store call.
C22_Witness ==
    /\ IsGetBatch
    /\ PhysicalKeys = {0}
    /\ VirtualKeys = {1}
    /\ Len(BatchEvents) = 5
    /\ BatchEvents[1] = [ev |-> "resolved", keys |-> {0}]
    /\ BatchEvents[2] = [ev |-> "virtual_get", keys |-> {1}]
    /\ BatchEvents[4] = [ev |-> "get_inner_batch", keys |-> {0}]
    /\ BatchEvents[5] = [ev |-> "materialize", keys |-> {0}]
    /\ uf_result.out.results[0].kind = "Ok" /\ uf_result.out.results[0].found

\* The entries of the virtual table whose fetch returned a document.
FoundVirtualKeys ==
    {k \in VirtualKeys :
        LET g == virtual_get(uf_result.ids[k], uf_result.bad)
        IN g.kind = "Ok" /\ g.found}

\* C23: get_batch calls tx.reads.record_read_document once for each entry
\* of a virtual table whose fetch returned a document, in batch key order,
\* with the virtual table's name, the document's size and the virtual flag
\* set; it makes no such call for a virtual entry that was not found or
\* whose fetch failed, and none for an entry of a physical table or of a
\* table that does not exist.
C23_VirtualReadAccounting ==
    IsGetBatch =>
        LET calls == uf_result.out.read_calls
        IN /\ Len(calls) = Cardinality(FoundVirtualKeys)
           /\ \A k \in FoundVirtualKeys :
                 calls[Cardinality({j \in FoundVirtualKeys : j <= k})]
                   = [table |-> StorageTable,
                      size |-> virtual_get(uf_result.ids[k],
                                           uf_result.bad).doc.size,
                      virtual |-> TRUE]

\* A batch of a virtual entry that was not found and of a virtual entry that
\* was found returned, with one read recorded.
C23_Witness ==
    /\ IsGetBatch
    /\ VirtualKeys = {0, 1}
    /\ uf_result.out.results[0] = OkNone
    /\ uf_result.out.results[1].kind = "Ok" /\ uf_result.out.results[1].found
    /\ Len(uf_result.out.read_calls) = 1
    /\ uf_result.out.read_calls[1].size = uf_result.out.results[1].doc.size

\* C24: in get_batch an entry whose table number is in neither the virtual
\* nor the physical table mapping gets the result Ok(None); it is not
\* staged, fetched or materialized, and it gets no error, even when the
\* store fails for its id.
C24_MissingTableIsNotFound ==
    IsGetBatch =>
        \A k \in MissingTableKeys :
            /\ uf_result.out.results[k] = OkNone
            /\ k \notin DOMAIN uf_result.out.ids_to_fetch
            /\ \A i \in DOMAIN BatchEvents :
                  BatchEvents[i].ev # "resolved" => k \notin BatchEvents[i].keys

\* A batch returned whose first entry, of a physical table, found its
\* document and whose second entry names a table number that does not
\* exist, an id for which the store would have failed.
C24_Witness ==
    /\ IsGetBatch
    /\ PhysicalKeys = {0}
    /\ MissingTableKeys = {1}
    /\ uf_result.ids[1] \in uf_result.bad
    /\ uf_result.out.results[0].kind = "Ok" /\ uf_result.out.results[0].found
    /\ uf_result.out.results[1] = OkNone
    /\ DOMAIN uf_result.out.ids_to_fetch = {0}

(***************************************************************************)
(* Order of the checks of the mutations: claims C25 - C28.                 *)
(***************************************************************************)

\* The variables that hold the transaction's reads and writes.
tx_state == <<table_mapping, docs, next_id, next_creation_time, reads>>

\* A step in which patch, replace or delete was called on an id of a system
\* table by an identity that is neither admin nor system.
UnauthorizedCallStep ==
    /\ uf_result.op = "idle"
    /\ uf_result'.op \in {"patch", "replace", "delete"}
    /\ ~is_privileged(identity)
    /\ is_system(table_mapping, uf_result'.id.table)

\* C25: authorization is the first step of patch, replace and delete. Called
\* on an id of a system table by an identity that is neither admin nor
\* system, each fails with the authorization error, whether the document
\* exists or not and whether retention is falling behind or not; it makes no
\* call to the store and leaves the transaction as it was.
C25_AuthorizationFirst ==
    [][UnauthorizedCallStep =>
          /\ uf_result'.result = Err("Unauthorized")
          /\ uf_result'.store_calls = <<>>
          /\ UNCHANGED tx_state]_vars

\* A user called replace on an id of the system table that names no
\* document, while retention was falling behind, and was refused
\* authorization.
C25_Witness ==
    /\ uf_result.op = "replace"
    /\ identity = "user"
    /\ falling_behind
    /\ uf_result.id.table = TableNumber(SysTable)
    /\ ResolvedOf(uf_result.id) \notin DOMAIN docs
    /\ FailedWith("Unauthorized")
    /\ uf_result.store_calls = <<>>

\* A step in which patch returned the size error.
OversizedPatchStep ==
    /\ uf_result.op = "idle"
    /\ uf_result'.op = "patch"
    /\ uf_result'.result = Err("ValueTooLargeError")

\* C26: a patch that fails the user size ceiling leaves the document as it
\* was: after the size error, get of the same id in the same transaction
\* returns the document it returned before the patch.
C26_RejectedPatchLeavesDocument ==
    [][OversizedPatchStep =>
          get(table_mapping', docs', reads', uf_result'.id, {}).result
            = get(table_mapping, docs, reads, uf_result'.id, {}).result]_vars

\* C26, for the rejections that come before the store call: a patch that is
\* refused authorization, refused for retention lag or whose table is not
\* found has made no store call and leaves every document as it was, and so
\* does a patch whose document the store does not find.
C26_RejectedBeforeWriteLeavesDocument ==
    [][( /\ uf_result.op = "idle"
         /\ uf_result'.op = "patch"
         /\ uf_result'.result.kind = "Err"
         /\ uf_result'.result # Err("ValueTooLargeError") ) =>
          /\ docs' = docs
          /\ uf_result'.result # Err("DocumentNotFound") =>
                uf_result'.store_calls = <<>>]_vars

\* A patch of a document of a user table was refused with the size error,
\* and the document in the transaction is larger than the ceiling: get
\* returns the patched document.
C26_Witness ==
    /\ uf_result.op = "patch"
    /\ FailedWith("ValueTooLargeError")
    /\ uf_result.store_calls = <<"patch_inner">>
    /\ ResolvedOf(uf_result.id) \in DOMAIN docs
    /\ docs[ResolvedOf(uf_result.id)].size > UserSizeCeiling
    /\ LET g == get(table_mapping, docs, reads, uf_result.id, {}).result
       IN g.kind = "Ok" /\ g.found /\ g.doc.size = uf_result.size

\* The errors with which insert rejects a call.
InsertRejections ==
    {"ReadOnlyTable", "ValueTooLargeError", "RetentionFallingBehind",
     "InvalidTableName"}

\* A step in which insert rejected the call with the error e.
RejectedInsertStep(e) ==
    /\ uf_result.op = "idle"
    /\ uf_result'.op = "insert"
    /\ uf_result'.result = Err(e)

\* C27 as stated: an insert that fails with the read-only, the size, the
\* backpressure or the invalid-table-name error leaves the id generator and
\* the creation-time counter as they were.
C27_RejectedInsertMutatesNothing ==
    [][\A e \in InsertRejections :
          RejectedInsertStep(e) =>
             /\ next_id' = next_id
             /\ next_creation_time' = next_creation_time]_vars

\* C27 amended: an insert that fails with the read-only, the size or the
\* backpressure error leaves the whole transaction as it was, the id
\* generator and the creation-time counter included. An insert that fails
\* with the invalid-table-name error writes no table and no document, but it
\* has drawn an id and a creation time: both counters are one further.
C27_RejectedInsertKeepsCountersButForName ==
    [][\A e \in InsertRejections :
          RejectedInsertStep(e) =>
             /\ docs' = docs
             /\ table_mapping' = table_mapping
             /\ e # "InvalidTableName" =>
                   /\ next_id' = next_id
                   /\ next_creation_time' = next_creation_time
             /\ e = "InvalidTableName" =>
                   /\ next_id' = next_id + 1
                   /\ next_creation_time' = next_creation_time + 1]_vars

\* The first insert of the transaction was rejected with the
\* invalid-table-name error: nothing was written, and the id generator and
\* the creation-time counter are one past their first values.
C27_Witness ==
    /\ IsInsert
    /\ FailedWith("InvalidTableName")
    /\ next_id = FirstGeneratedId + 1
    /\ next_creation_time = FirstGeneratedId + 1
    /\ docs = InitialDocs
    /\ table_mapping = InitialTables

\* The error of the first check of insert that fails, if any: the virtual
\* table, the size ceiling, the retention lag, the reserved prefix.
FirstFailingCheck(table, size, behind) ==
    IF is_virtual_table(table) THEN Some("ReadOnlyTable")
    ELSE IF size > UserSizeCeiling THEN Some("ValueTooLargeError")
    ELSE IF behind THEN Some("RetentionFallingBehind")
    ELSE IF is_system_name(table) THEN Some("InvalidTableName")
    ELSE None

\* C28: insert checks, in this order, the virtual table, the size ceiling,
\* the retention lag and the reserved prefix, and the first check that fails
\* gives the error; when none fails insert returns none of the four errors.
\* So an insert into a virtual table whose name starts with '_' gets the
\* read-only error, and an oversized document for a table of a reserved
\* name that is not virtual gets the size error.
C28_InsertCheckOrder ==
    IsInsert =>
        LET first == FirstFailingCheck(uf_result.table, uf_result.size,
                                       falling_behind)
        IN /\ first.some => FailedWith(first.val)
           /\ ~first.some =>
                 ~(Failed /\ uf_result.result.err \in InsertRejections)
           /\ (is_virtual_table(uf_result.table)
                 /\ is_system_name(uf_result.table)) =>
                 FailedWith("ReadOnlyTable")
           /\ (~is_virtual_table(uf_result.table)
                 /\ is_system_name(uf_result.table)
                 /\ uf_result.size > UserSizeCeiling) =>
                 FailedWith("ValueTooLargeError")

\* An oversized document for the table "_n", inserted while retention was
\* falling behind, was refused with the size error.
C28_Witness ==
    /\ IsInsert
    /\ uf_result.table = NewSysTable
    /\ uf_result.size > UserSizeCeiling
    /\ falling_behind
    /\ FailedWith("ValueTooLargeError")

(***************************************************************************)
(* Component tree resolver, lookups and missing records: claims C29 - C30. *)
(***************************************************************************)

IsResolvePath == comp_result.op = "resolve_path"

\* C29: resolve_path looks the root up first and then one segment per step,
\* each under the component the step before has found. It makes no lookup
\* after one that finds nothing, so at most one per segment plus one for the
\* root; it returns none exactly when its last lookup finds nothing (the
\* root's, when there is no root), and otherwise the component its last
\* lookup has found, which for the empty path is the root.
C29_ResolveShortCircuits ==
    IsResolvePath =>
        LET lookups == comp_result.lookups
            path == comp_result.path
            found(i) == component_in_parent(components, lookups[i])
        IN /\ Len(lookups) \in 1..(Len(path) + 1)
           /\ lookups[1] = None
           /\ \A i \in 1..(Len(lookups) - 1) : found(i).some
           /\ \A i \in 2..Len(lookups) :
                 lookups[i] = Some(<<found(i - 1).val, path[i - 1]>>)
           /\ ~root_component(components).some =>
                 /\ comp_result.result = None
                 /\ Len(lookups) = 1
           /\ ~found(Len(lookups)).some => comp_result.result = None
           /\ found(Len(lookups)).some =>
                 /\ Len(lookups) = Len(path) + 1
                 /\ comp_result.result = found(Len(lookups))
           /\ path = <<>> =>
                 comp_result.result = root_component(components)

\* A path of two segments was resolved in a tree that has a root with
\* a child: the first segment named no child of the root, and resolve_path
\* returned none after two lookups, without looking the second segment up.
C29_Witness ==
    /\ IsResolvePath
    /\ Len(comp_result.path) = 2
    /\ root_component(components).some
    /\ ChildDocs # {}
    /\ Len(comp_result.lookups) = 2
    /\ comp_result.result = None

\* A record on the way from the component to the root is missing: that of
\* the component itself or that of one of its ancestors.
RECURSIVE RecordMissing(_)
RecordMissing(component_id) ==
    IF component_id.kind = "Root" THEN FALSE
    ELSE IF component_id.id \notin DOMAIN components THEN TRUE
    ELSE IF components[component_id.id].kind = "App" THEN FALSE
    ELSE RecordMissing(ChildId(components[component_id.id].parent))

\* C30: get_component_path fails, with an internal error, whenever the
\* record of the given component or of one of its ancestors is missing; it
\* returns a path only when every record on the way to the root is there.
C30_MissingRecordIsFatal ==
    comp_result.op = "get_component_path" =>
        /\ RecordMissing(comp_result.component_id) =>
              /\ ~comp_result.result.ok
              /\ comp_result.result.err = "ComponentMissing"
              /\ ErrorClass(comp_result.result.err) = "Internal"
        /\ comp_result.result.ok <=> ~RecordMissing(comp_result.component_id)

\* get_component_path failed for a component whose own record is there and
\* whose parent's record is lost.
C30_Witness ==
    /\ comp_result.op = "get_component_path"
    /\ comp_result.component_id.kind = "Child"
    /\ comp_result.component_id.id \in DOMAIN components
    /\ components[comp_result.component_id.id].kind = "ChildComponent"
    /\ components[comp_result.component_id.id].parent \notin DOMAIN components
    /\ ~comp_result.result.ok

(***************************************************************************)
(* Component tree resolver, acyclicity and termination: claim C31.         *)
(***************************************************************************)

\* C31: the component structure is acyclic in every reachable state: the
\* parent of every child component is a record of the table that was
\* created before it. get_component_path therefore terminates for every
\* component id: for a component of the table it returns a path after it
\* has followed as many parent links as the component is deep (one read per
\* record on the way, the root's included); for Root it reads nothing; for
\* an id without a record it fails at its first read.
C31_AcyclicAndTerminates ==
    /\ \A i \in ChildDocs :
          /\ components[i].parent \in DOMAIN components
          /\ components[i].parent < i
    /\ comp_result.op = "get_component_path" =>
          LET cid == comp_result.component_id
          IN CASE cid.kind = "Root" ->
                    /\ comp_result.gets = 0
                    /\ comp_result.result = [ok |-> TRUE, path |-> <<>>]
               [] cid.kind = "Child" /\ cid.id \in DOMAIN components ->
                    /\ comp_result.result.ok
                    /\ Len(comp_result.result.path) = DepthOf(cid.id)
                    /\ comp_result.gets = DepthOf(cid.id) + 1
               [] OTHER ->
                    /\ ~comp_result.result.ok
                    /\ comp_result.gets = 1

\* get_component_path returned the path of a component two levels below the
\* root after three reads.
C31_Witness ==
    /\ comp_result.op = "get_component_path"
    /\ comp_result.component_id.kind = "Child"
    /\ comp_result.component_id.id \in ChildDocs
    /\ DepthOf(comp_result.component_id.id) = 2
    /\ Len(comp_result.result.path) = 2
    /\ comp_result.gets = 3


(***************************************************************************)
(* load_all_definitions: claim C32                                         *)
(***************************************************************************)

\* Two stored definitions share a path.
SharedDefinitionPath ==
    \E i, j \in DOMAIN definitions :
        i # j /\ definitions[i].path = definitions[j].path

\* C32: load_all_definitions returns a mapping with exactly one entry per
\* stored definition, keyed by the path of the definition, and fails with an
\* internal error, no entry being dropped or overwritten in silence, whenever
\* two stored definitions share a path.
C32_OneEntryPerDefinition ==
    comp_result.op = "load_all_definitions" =>
        LET r == comp_result.result
        IN IF SharedDefinitionPath
           THEN /\ ~r.ok
                /\ ErrorClass(r.err) = "Internal"
           ELSE /\ r.ok
                /\ DOMAIN r.definitions
                      = {definitions[i].path : i \in DOMAIN definitions}
                /\ Cardinality(DOMAIN r.definitions)
                      = Cardinality(DOMAIN definitions)
                /\ \A i \in DOMAIN definitions :
                      r.definitions[definitions[i].path]
                          = ParsedDocument(i, definitions[i])

\* Two definitions with the same path and different types are stored and
\* the load fails.
C32_Witness ==
    /\ comp_result.op = "load_all_definitions"
    /\ Cardinality(DOMAIN definitions) = 2
    /\ definitions[1].path = definitions[2].path
    /\ definitions[1].definition_type # definitions[2].definition_type
    /\ ~comp_result.result.ok


(***************************************************************************)
(* function_path_to_module: claim C33                                      *)
(***************************************************************************)

\* C33: function_path_to_module agrees with component_definition: a root
\* path yields the Root definition id without any component lookup; a
\* non-root path yields Child(d), d the definition_id of the component that
\* resolve_path returns, which is component_definition of that component;
\* the call fails when the path does not resolve.
C33_ModuleAgreesWithDefinition ==
    comp_result.op = "function_path_to_module" =>
        LET path == comp_result.path
            r == comp_result.result
            target == resolve_path(components, path.component)
        IN IF path.component = <<>>
           THEN /\ r.ok
                /\ r.val.component = RootDefinitionId
                /\ r.val.module_path = path.udf_path.module
                /\ comp_result.lookups = <<>>
                /\ component_definition(components, RootId)
                      = [ok |-> TRUE, val |-> r.val.component]
           ELSE IF target.some
           THEN /\ r.ok
                /\ r.val.component
                      = ChildDefinitionId(components[target.val].definition_id)
                /\ r.val.module_path = path.udf_path.module
                /\ component_definition(components, ChildId(target.val))
                      = [ok |-> TRUE, val |-> r.val.component]
           ELSE ~r.ok

\* The module of a function in the component a/b, whose definition differs
\* from that of the root component.
C33_Witness ==
    /\ comp_result.op = "function_path_to_module"
    /\ Len(comp_result.path.component) = 2
    /\ comp_result.result.ok
    /\ comp_result.result.val.component.kind = "Child"
    /\ \E i \in DOMAIN components :
          /\ components[i].kind = "App"
          /\ components[i].definition_id
                # comp_result.result.val.component.id


(***************************************************************************)
(* System UDF paths: claim C34                                             *)
(***************************************************************************)

IsSystemValidate ==
    uf_result.op = "validate" /\ udf_path_is_system(uf_result.path)

\* C34: for a system UDF path, ValidatedPathAndArgs::new yields a validated
\* result exactly when the identity of the transaction is admin or system,
\* whatever the backend state (Running, Paused or Disabled), and an
\* unauthorized error otherwise; a system path inside a non-root component
\* aborts with an internal error.
C34_SystemPathChecksIdentityOnly ==
    IsSystemValidate =>
        LET r == uf_result.result
        IN IF ~component_is_root(uf_result.path)
           THEN /\ r.kind = "Err"
                /\ ErrorClass(r.err) = "Internal"
           ELSE IF identity \in {"admin", "system"}
           THEN /\ r.kind = "Ok"
                /\ r.value.path = uf_result.path
                /\ r.value.args = uf_result.args
           ELSE /\ r.kind = "JsError"
                /\ r.message[1] = "Unauthorized"

\* An admin runs a system function of the root component on a paused
\* backend.
C34_Witness ==
    /\ IsSystemValidate
    /\ component_is_root(uf_result.path)
    /\ backend_state = "Paused"
    /\ identity = "admin"
    /\ uf_result.result.kind = "Ok"


(***************************************************************************)
(* get and get_with_ts: claim C35                                          *)
(***************************************************************************)

\* The outcome of get_batch on the one-entry batch {0: id} in the
\* transaction as it was before the call in uf_result.
OneEntryBatch ==
    get_batch(table_mapping, docs, uf_result.pre_reads,
              [k \in {0} |-> uf_result.id], uf_result.bad)

\* C35: get and get_with_ts are wrappers over a one-entry batch:
\* get_with_ts(id, v) returns exactly the result that get_batch returns for
\* the single key of the batch {0: (id, v)}, its error included, and
\* get(id, v) returns that result with the write timestamp dropped.
C35_GetIsOneEntryBatch ==
    /\ uf_result.op = "get_with_ts" =>
          /\ DOMAIN OneEntryBatch.results = {0}
          /\ uf_result.result = OneEntryBatch.results[0]
          /\ reads = OneEntryBatch.reads
    /\ uf_result.op = "get" =>
          LET b == OneEntryBatch.results[0]
          IN /\ DOMAIN OneEntryBatch.results = {0}
             /\ reads = OneEntryBatch.reads
             /\ IF b.kind = "Ok" /\ b.found
                THEN uf_result.result
                        = [kind |-> "Ok", found |-> TRUE, doc |-> b.doc]
                ELSE uf_result.result = b

\* get_with_ts returns the error of the entry of the batch.
C35_Witness ==
    /\ uf_result.op = "get_with_ts"
    /\ uf_result.result.kind = "Err"
    /\ uf_result.result = OneEntryBatch.results[0]

====
